---- MODULE Spec2Model ----
(***************************************************************************)
(* Two-stage agent pipeline of boltdye: the LangChain orchestrator, the    *)
(* prompt-enhancer and code-generator agents (LangChain and standard       *)
(* variants), the model/provider tag resolver and the API key resolver.    *)
(*                                                                         *)
(* Strings are sequences of tokens.  A token is either one of the literal  *)
(* pieces the regular expressions of the resolver look for ("[Model: ",    *)
(* "[Provider: ", "]", newline) or a word.  The length of a string in      *)
(* characters is the sum of the character lengths of its tokens.           *)
(***************************************************************************)
EXTENDS Integers, Sequences, FiniteSets, TLC

\* ---------------------------------------------------------------- bounds

\* longest message history handed to the orchestrator or to an agent
MaxMsgs == 2

\* deepest nesting of pending values handed to ensureString
MaxWrappers == 2

\* how many viewAgentLogs calls and how many console lines of the page a run of
\* the log viewer takes
MaxViews == 2
MaxActivity == 1

\* ---------------------------------------------------------------- tokens

MT == "[Model: "
PT == "[Provider: "
RB == "]"
NL == "\n"

\* "absent" values (undefined in the source)
NoMessage == [role |-> "none", content |-> [kind |-> "none", text |-> <<>>, parts |-> <<>>], id |-> 0]
NoUsage == [present |-> FALSE, completionTokens |-> 0, promptTokens |-> 0, totalTokens |-> 0]
NoError == <<>>

\* character length of one token
CharLen(tok) ==
  CASE tok = MT -> 8
    [] tok = PT -> 11
    [] tok = RB -> 1
    [] tok = NL -> 1
    [] tok = "hi" -> 2
    [] tok = "ok" -> 2
    [] tok = "gpt" -> 3
    [] tok = "zed" -> 3
    [] tok = "gpt-4" -> 5
    [] tok = "gpt-4o" -> 6
    [] tok = "OpenAI" -> 6
    [] tok = "openai" -> 6
    [] tok = "<enhancer template head>" -> 1045
    [] tok = "<enhancer template tail>" -> 34
    [] tok = "<code generator template head>" -> 225
    [] tok = "<code generator template tail>" -> 441
    [] tok = "<code generator system message>" -> 107
    [] tok = "<files context intro>" -> 47
    [] tok = "<boltArtifact head>" -> 55
    [] tok = "<boltArtifact tail>" -> 16
    [] tok = "<boltAction head>" -> 34
    [] tok = "<boltAction mid>" -> 2
    [] tok = "<boltAction tail>" -> 13
    [] tok = "a.ts" -> 4
    [] tok = "Anthropic" -> 9
    [] tok = "anthropic" -> 9
    [] tok = "Groq" -> 4
    [] tok = "groq" -> 4
    [] tok = "x=1" -> 3
    [] OTHER -> 1

RECURSIVE StrLen(_)
\* String.prototype.length
StrLen(s) == IF s = <<>> THEN 0 ELSE CharLen(Head(s)) + StrLen(Tail(s))

\* String.prototype.toLowerCase, token by token
LowerTok(tok) ==
  CASE tok = MT -> "[model: "
    [] tok = PT -> "[provider: "
    [] tok = "OpenAI" -> "openai"
    [] tok = "Anthropic" -> "anthropic"
    [] tok = "Groq" -> "groq"
    [] OTHER -> tok

ToLowerCase(s) == [i \in 1..Len(s) |-> LowerTok(s[i])]

\* String.prototype.toUpperCase, token by token
UpperTok(tok) ==
  CASE tok = MT -> "[MODEL: "
    [] tok = PT -> "[PROVIDER: "
    [] tok = "OpenAI" -> "OPENAI"
    [] tok = "openai" -> "OPENAI"
    [] tok = "Anthropic" -> "ANTHROPIC"
    [] tok = "anthropic" -> "ANTHROPIC"
    [] tok = "Groq" -> "GROQ"
    [] tok = "groq" -> "GROQ"
    [] tok = "zed" -> "ZED"
    [] tok = "gpt" -> "GPT"
    [] tok = "hi" -> "HI"
    [] tok = "ok" -> "OK"
    [] OTHER -> tok

ToUpperCase(s) == [i \in 1..Len(s) |-> UpperTok(s[i])]

IsSpace(tok) == tok = NL

RECURSIVE TrimStart(_)
TrimStart(s) == IF s # <<>> /\ IsSpace(Head(s)) THEN TrimStart(Tail(s)) ELSE s

RECURSIVE TrimEnd(_)
TrimEnd(s) ==
  IF s # <<>> /\ IsSpace(s[Len(s)]) THEN TrimEnd(SubSeq(s, 1, Len(s) - 1)) ELSE s

\* String.prototype.trim
Trim(s) == TrimEnd(TrimStart(s))

\* an estimate that rounds down
FloorDiv4(n) == n \div 4

\* Math.ceil(n / 4)
CeilDiv4(n) == (n + 3) \div 4

\* ---------------------------------------------------------------- messages

StringContent(t) == [kind |-> "string", text |-> t, parts |-> <<>>]
ArrayContent(ps) == [kind |-> "array", text |-> <<>>, parts |-> ps]
TextPart(t) == [type |-> "text", text |-> t]
ImagePart == [type |-> "image", text |-> <<>>]

\* contentArray.find(c => c.type === 'text')?.text || ''
FirstTextOf(parts) ==
  IF \E i \in 1..Len(parts) : parts[i].type = "text"
  THEN parts[CHOOSE i \in 1..Len(parts) :
               /\ parts[i].type = "text"
               /\ \A j \in 1..(i - 1) : parts[j].type # "text"].text
  ELSE <<>>

\* the text of a message content: the string itself, or the first text part
MessageContentText(content) ==
  CASE content.kind = "string" -> content.text
    [] content.kind = "array" -> FirstTextOf(content.parts)
    [] OTHER -> <<>>

\* a search that looks at the newest message only
NewestIfUserIndex(msgs) ==
  IF Len(msgs) > 0 /\ msgs[Len(msgs)].role = "user" THEN Len(msgs) ELSE 0

\* index of the last message with role user, 0 when there is none
LastUserIndex(msgs) ==
  IF \E i \in 1..Len(msgs) : msgs[i].role = "user"
  THEN CHOOSE i \in 1..Len(msgs) :
         /\ msgs[i].role = "user"
         /\ \A j \in (i + 1)..Len(msgs) : msgs[j].role # "user"
  ELSE 0

\* a search that makes up a blank user message when no user message is found
LastUserMessageOrBlank(msgs) ==
  IF LastUserIndex(msgs) # 0 THEN msgs[LastUserIndex(msgs)]
  ELSE [role |-> "user", content |-> [kind |-> "string", text |-> <<>>, parts |-> <<>>],
        id |-> 0]

\* a search that falls back to the newest message when no user message is found
LastUserMessageOrNewest(msgs) ==
  IF LastUserIndex(msgs) # 0 THEN msgs[LastUserIndex(msgs)]
  ELSE IF Len(msgs) > 0 THEN msgs[Len(msgs)] ELSE NoMessage

\* [...messages].reverse().find(msg => msg.role === 'user')
LastUserMessage(msgs) ==
  IF LastUserIndex(msgs) = 0 THEN NoMessage ELSE msgs[LastUserIndex(msgs)]

\* ---------------------------------------------------------------- tag resolver

\* the regular expression /\[<tag>(.*?)\]/ matches at position i: the tag literal,
\* then the shortest run of characters other than line terminators, then "]"
MatchEnd(text, tag, i) ==
  IF i <= Len(text) /\ text[i] = tag
        /\ \E j \in (i + 1)..Len(text) :
              /\ text[j] = RB
              /\ \A k \in (i + 1)..(j - 1) : text[k] # RB /\ text[k] # NL
  THEN CHOOSE j \in (i + 1)..Len(text) :
         /\ text[j] = RB
         /\ \A k \in (i + 1)..(j - 1) : text[k] # RB /\ text[k] # NL
  ELSE 0

\* a search that keeps the last position where the expression matches
MatchStartLast(text, tag) ==
  IF \E i \in 1..Len(text) : MatchEnd(text, tag, i) # 0
  THEN CHOOSE i \in 1..Len(text) :
         /\ MatchEnd(text, tag, i) # 0
         /\ \A h \in (i + 1)..Len(text) : MatchEnd(text, tag, h) = 0
  ELSE 0

\* content.match(/\[<tag>(.*?)\]/): the leftmost position where it matches, 0 if none
MatchStart(text, tag) ==
  IF \E i \in 1..Len(text) : MatchEnd(text, tag, i) # 0
  THEN CHOOSE i \in 1..Len(text) :
         /\ MatchEnd(text, tag, i) # 0
         /\ \A h \in 1..(i - 1) : MatchEnd(text, tag, h) = 0
  ELSE 0

HasMatch(text, tag) == MatchStart(text, tag) # 0

\* match[1], the captured group
Capture(text, tag) ==
  SubSeq(text, MatchStart(text, tag) + 1, MatchEnd(text, tag, MatchStart(text, tag)) - 1)

\* a resolver that leaves the provider empty when the text carries no provider tag
extractModelInfoNoDefaultProvider(message) ==
  LET content == MessageContentText(message.content)
  IN [model |-> IF HasMatch(content, MT) THEN Capture(content, MT) ELSE <<"gpt-4o">>,
      providerName |-> IF HasMatch(content, PT) THEN Capture(content, PT) ELSE <<>>]

\* extractModelInfo of the LangChain agents; content is bound to its value once
extractModelInfo(message) ==
  LET resolved(content) ==
        [model |-> IF HasMatch(content, MT) THEN Capture(content, MT) ELSE <<"gpt-4o">>,
         providerName |-> IF HasMatch(content, PT) THEN Capture(content, PT)
                          ELSE <<"OpenAI">>]
  IN CHOOSE info \in { resolved(content) :
                         content \in {MessageContentText(message.content)} } : TRUE

\* extractModelInfo of the standard prompt enhancer
extractModelInfoStd(message) ==
  LET content == MessageContentText(message.content)
  IN [model |-> IF HasMatch(content, MT) THEN Capture(content, MT) ELSE <<"gpt-4">>,
      providerName |-> IF HasMatch(content, PT) THEN Capture(content, PT) ELSE <<"openai">>]

\* modelInfo as the enhancer and the orchestrator resolve it: from the newest message
NewestModelInfo(msgs) ==
  IF Len(msgs) > 0 THEN extractModelInfo(msgs[Len(msgs)])
  ELSE [model |-> <<"gpt-4o">>, providerName |-> <<"OpenAI">>]

NewestModelInfoStd(msgs) ==
  IF Len(msgs) > 0 THEN extractModelInfoStd(msgs[Len(msgs)])
  ELSE [model |-> <<"gpt-4">>, providerName |-> <<"openai">>]

\* ---------------------------------------------------------------- API keys

\* map?.[key], undefined read as the empty string
Lookup(map, key) == IF key \in DOMAIN map THEN map[key] ELSE <<>>

\* a chain that asks the request's env before the key map
FirstNonEmptyEnvFirst(a, b, c) == IF b # <<>> THEN b ELSE IF a # <<>> THEN a ELSE c

\* a chain that passes over a value it takes for a placeholder
FirstNonPlaceholder(a, b, c) ==
  LET usable(v) == v # <<>> /\ v # <<"sk-b">>
  IN IF usable(a) THEN a ELSE IF usable(b) THEN b ELSE IF usable(c) THEN c ELSE <<>>

\* a || b || c || ''
FirstNonEmpty(a, b, c) == IF a # <<>> THEN a ELSE IF b # <<>> THEN b ELSE c

\* a lookup that takes the OpenAI key for a provider it does not know
getApiKeyOrOpenAI(keys, envMap, processEnv, provider) ==
  LET p == ToLowerCase(provider)
  IN CASE p = <<"anthropic">> ->
            FirstNonEmpty(Lookup(keys, <<"Anthropic">>),
                          Lookup(envMap, <<"ANTHROPIC", "_API_KEY">>),
                          Lookup(processEnv, <<"ANTHROPIC", "_API_KEY">>))
       [] p = <<"groq">> ->
            FirstNonEmpty(Lookup(keys, <<"Groq">>),
                          Lookup(envMap, <<"GROQ", "_API_KEY">>),
                          Lookup(processEnv, <<"GROQ", "_API_KEY">>))
       [] OTHER ->
            FirstNonEmpty(Lookup(keys, <<"OpenAI">>),
                          Lookup(envMap, <<"OPENAI", "_API_KEY">>),
                          Lookup(processEnv, <<"OPENAI", "_API_KEY">>))

getApiKey(keys, envMap, processEnv, provider) ==
  LET p == ToLowerCase(provider)
      envKeyName == ToUpperCase(provider) \o <<"_API_KEY">>
  IN CASE p = <<"anthropic">> ->
            FirstNonEmpty(Lookup(keys, <<"Anthropic">>),
                          Lookup(envMap, <<"ANTHROPIC", "_API_KEY">>),
                          Lookup(processEnv, <<"ANTHROPIC", "_API_KEY">>))
       [] p = <<"openai">> ->
            FirstNonEmpty(Lookup(keys, <<"OpenAI">>),
                          Lookup(envMap, <<"OPENAI", "_API_KEY">>),
                          Lookup(processEnv, <<"OPENAI", "_API_KEY">>))
       [] p = <<"groq">> ->
            FirstNonEmpty(Lookup(keys, <<"Groq">>),
                          Lookup(envMap, <<"GROQ", "_API_KEY">>),
                          Lookup(processEnv, <<"GROQ", "_API_KEY">>))
       [] OTHER ->
            FirstNonEmpty(Lookup(keys, provider),
                          Lookup(envMap, envKeyName),
                          Lookup(processEnv, envKeyName))

\* the model client createLangChainModel builds
createLangChainModel(provider, model, apiKey, temperature, processEnv) ==
  LET p == ToLowerCase(provider)
      anthropicKey == Lookup(processEnv, <<"ANTHROPIC", "_API_KEY">>)
  IN CASE p = <<"anthropic">> ->
            [client |-> "ChatAnthropic", apiKey |-> apiKey, modelName |-> model,
             temperature |-> temperature, baseURL |-> <<>>]
       [] p = <<"openai">> ->
            [client |-> "ChatOpenAI", apiKey |-> apiKey, modelName |-> model,
             temperature |-> temperature, baseURL |-> <<>>]
       [] p = <<"groq">> ->
            [client |-> "ChatOpenAI", apiKey |-> apiKey, modelName |-> model,
             temperature |-> temperature, baseURL |-> <<"https://api.groq.com/openai/v1">>]
       [] OTHER ->
            IF anthropicKey # <<>>
            THEN [client |-> "ChatAnthropic", apiKey |-> anthropicKey,
                  modelName |-> <<"claude-3-sonnet-20240229">>,
                  temperature |-> temperature, baseURL |-> <<>>]
            ELSE [client |-> "ChatOpenAI", apiKey |-> apiKey,
                  modelName |-> IF model # <<>> THEN model ELSE <<"gpt-4o">>,
                  temperature |-> temperature, baseURL |-> <<>>]

\* ---------------------------------------------------------------- events

\* createProgressAnnotation: 'error' is written as 'complete'
createProgressAnnotation(label, message, status, order) ==
  [type |-> "progress", label |-> label,
   status |-> IF status = "error" THEN "complete" ELSE status,
   order |-> order, message |-> message, original |-> <<>>, enhanced |-> <<>>]

\* the prompt-comparison event of the orchestrator
PromptComparison(original, enhanced) ==
  [type |-> "prompt-comparison", label |-> "", status |-> "", order |-> 0,
   message |-> "", original |-> original, enhanced |-> enhanced]

\* ---------------------------------------------------------------- prompts

\* createPromptForAgent(role).format({input})
FormatPrompt(role, input) ==
  IF role = "prompt_enhancer"
  THEN <<"<enhancer template head>">> \o input \o <<"<enhancer template tail>">>
  ELSE <<"<code generator template head>">> \o input \o <<"<code generator template tail>">>

RECURSIVE FileBlocks(_)
FileBlocks(fs) ==
  IF fs = <<>> THEN <<>>
  ELSE <<"<boltAction head>", Head(fs).path, "<boltAction mid>">> \o Head(fs).content
         \o <<"<boltAction tail>">>
         \o (IF Tail(fs) = <<>> THEN <<>> ELSE <<NL>>) \o FileBlocks(Tail(fs))

\* createFilesContext(files, true)
createFilesContext(fs) ==
  <<"<boltArtifact head>">> \o FileBlocks(fs) \o <<"<boltArtifact tail>">>

\* a system message that leaves the files out
SystemMessageNoContext(fs) == <<"<code generator system message>">>

\* the system message of the LangChain code generator
SystemMessage(fs) ==
  IF fs # <<>>
  THEN <<"<code generator system message>", "<files context intro>">> \o createFilesContext(fs)
  ELSE <<"<code generator system message>">>

RECURSIVE JsonEscape(_)
\* the text of a JSON string: a newline is written as backslash n
JsonEscape(t) ==
  IF t = <<>> THEN <<>>
  ELSE (IF Head(t) = NL THEN <<"\\", "n">> ELSE <<Head(t)>>) \o JsonEscape(Tail(t))

RECURSIVE JsonParts(_)
JsonParts(ps) ==
  IF ps = <<>> THEN <<>>
  ELSE (IF Head(ps).type = "text"
        THEN <<"{\"type\":\"text\",\"text\":\"">> \o JsonEscape(Head(ps).text) \o <<"\"}">>
        ELSE <<"{\"type\":\"image\"}">>)
       \o (IF Tail(ps) = <<>> THEN <<>> ELSE <<",">>) \o JsonParts(Tail(ps))

\* a comparison that shows the newest message instead of the last user message
OriginalPromptTextOfNewest(msgs) ==
  IF msgs = <<>> THEN <<>>
  ELSE LET m == msgs[Len(msgs)]
       IN IF m.content.kind = "array" THEN <<"[">> \o JsonParts(m.content.parts) \o <<"]">>
          ELSE m.content.text

\* typeof originalPrompt === 'string' ? originalPrompt : JSON.stringify(originalPrompt)
OriginalPromptText(msgs) ==
  LET m == LastUserMessage(msgs)
  IN IF m.content.kind = "array" /\ m.content.parts # <<>>
     THEN <<"[">> \o JsonParts(m.content.parts) \o <<"]">>
     ELSE IF m.content.kind = "array" THEN <<"[", "]">>
     ELSE m.content.text

\* ---------------------------------------------------------------- values

\* a JavaScript value as a stage may return it: the layers of pending-value
\* wrappers around it (outermost first, each resolved or rejected) and the settled
\* value inside: a string (str), a number or boolean (num), null, undefined, a plain
\* object or an array (props, in key order; cyclic when JSON.stringify throws on it)
StringValue(s) ==
  [wrappers |-> <<>>, type |-> "string", str |-> s, num |-> 0, props |-> <<>>, cyclic |-> FALSE]
NullValue ==
  [wrappers |-> <<>>, type |-> "null", str |-> <<>>, num |-> 0, props |-> <<>>, cyclic |-> FALSE]
UndefinedValue ==
  [wrappers |-> <<>>, type |-> "undefined", str |-> <<>>, num |-> 0, props |-> <<>>,
   cyclic |-> FALSE]
NumberValue(n) ==
  [wrappers |-> <<>>, type |-> "number", str |-> <<>>, num |-> n, props |-> <<>>,
   cyclic |-> FALSE]
BooleanValue(b) ==
  [wrappers |-> <<>>, type |-> "boolean", str |-> <<>>, num |-> IF b THEN 1 ELSE 0,
   props |-> <<>>, cyclic |-> FALSE]
ObjectValue(ps, cyc) ==
  [wrappers |-> <<>>, type |-> "object", str |-> <<>>, num |-> 0, props |-> ps, cyclic |-> cyc]
ArrayValue(ps, cyc) ==
  [wrappers |-> <<>>, type |-> "array", str |-> <<>>, num |-> 0, props |-> ps, cyclic |-> cyc]
Resolved(v) == [v EXCEPT !.wrappers = <<"resolved">> \o v.wrappers]
Rejected ==
  [wrappers |-> <<"rejected">>, type |-> "undefined", str |-> <<>>, num |-> 0,
   props |-> <<>>, cyclic |-> FALSE]

RECURSIVE Digits(_)
Digits(n) ==
  IF n < 10 THEN <<(<<"0", "1", "2", "3", "4", "5", "6", "7", "8", "9">>)[n + 1]>>
  ELSE Digits(n \div 10) \o Digits(n % 10)

\* String(value) of a number
NumberText(n) == IF n < 0 THEN <<"-">> \o Digits(0 - n) ELSE Digits(n)

RECURSIVE PrettyProps(_)
PrettyProps(ps) ==
  IF ps = <<>> THEN <<>>
  ELSE <<NL, "  ", "\"", Head(ps).key, "\"", ": ", "\"">> \o JsonEscape(Head(ps).value)
         \o <<"\"">> \o (IF Tail(ps) = <<>> THEN <<NL>> ELSE <<",">>) \o PrettyProps(Tail(ps))

\* JSON.stringify(value, replacer, 2) of a plain object with string properties
PrettyJson(ps) == <<"{">> \o PrettyProps(ps) \o <<"}">>

RECURSIVE CompactItems(_)
CompactItems(ps) ==
  IF ps = <<>> THEN <<>>
  ELSE <<"\"">> \o JsonEscape(Head(ps).value) \o <<"\"">>
         \o (IF Tail(ps) = <<>> THEN <<>> ELSE <<",">>) \o CompactItems(Tail(ps))

\* JSON.stringify(value) of an array of strings
CompactJson(ps) == <<"[">> \o CompactItems(ps) \o <<"]">>

RECURSIVE JoinKeys(_)
\* Object.keys(value).join(', ')
JoinKeys(ps) ==
  IF ps = <<>> THEN <<>>
  ELSE <<Head(ps).key>> \o (IF Tail(ps) = <<>> THEN <<>> ELSE <<", ">>) \o JoinKeys(Tail(ps))

\* what an async function call settles to
Fulfilled(s) == [state |-> "fulfilled", value |-> s]
RejectedWith(e) == [state |-> "rejected", value |-> e]

\* ensureString of a value that is no pending value: a string as it is, an object as
\* its JSON text (or a placeholder when JSON.stringify throws), null and undefined
\* as the empty string, anything else as String(value)
CoerceSettled(v) ==
  CASE v.type = "string" -> v.str
    [] v.type = "object" ->
         IF v.cyclic THEN <<"[Complex object: ">> \o JoinKeys(v.props) \o <<"]">>
         ELSE PrettyJson(v.props)
    [] v.type = "array" ->
         IF v.cyclic THEN <<"[Object conversion error]">> ELSE CompactJson(v.props)
    [] v.type = "null" \/ v.type = "undefined" -> <<>>
    [] v.type = "number" -> NumberText(v.num)
    [] v.type = "boolean" -> IF v.num = 1 THEN <<"true">> ELSE <<"false">>
    [] OTHER -> <<"[ensureString error]">>

RECURSIVE ensureStringSettlesRethrowing(_)
\* an ensureString whose await is not inside a try
ensureStringSettlesRethrowing(v) ==
  IF v.wrappers # <<>>
  THEN IF Head(v.wrappers) = "rejected" THEN RejectedWith(<<"promise rejected">>)
       ELSE ensureStringSettlesRethrowing([v EXCEPT !.wrappers = Tail(v.wrappers)])
  ELSE Fulfilled(CoerceSettled(v))

RECURSIVE ensureStringSettles(_)
\* what the promise of ensureString(value) settles to: a pending value is awaited
\* and coerced again, a rejected one is caught and gives a placeholder
ensureStringSettles(v) ==
  IF v.wrappers # <<>>
  THEN IF Head(v.wrappers) = "rejected" THEN Fulfilled(<<"[Error resolving promise]">>)
       ELSE ensureStringSettles([v EXCEPT !.wrappers = Tail(v.wrappers)])
  ELSE Fulfilled(CoerceSettled(v))

\* await ensureString(value)
ensureString(v) == ensureStringSettles(v).value

\* ---------------------------------------------------------------- inputs

Roles == {"system", "user", "assistant"}

\* message texts: untagged, tagged the way the client tags them (known and unknown
\* provider), and a provider tag followed by a model tag that runs into a second
\* provider tag
Texts ==
  { <<"hi">>,
    <<MT, "gpt", RB, NL, NL, PT, "OpenAI", RB, NL, NL, "hi">>,
    <<MT, "gpt", RB, NL, NL, PT, "zed", RB, NL, NL, "hi">>,
    <<PT, "OpenAI", RB, MT, "gpt", PT, "zed", RB>> }

Contents ==
  { StringContent(t) : t \in Texts }
    \cup { ArrayContent(<<ImagePart, TextPart(<<MT, "gpt", RB, NL, NL, PT, "OpenAI", RB, NL, NL, "hi">>)>>),
           ArrayContent(<<ImagePart>>) }

HistoriesOfLen(n) ==
  { [i \in 1..n |-> [role |-> rs[i], content |-> cs[i], id |-> i]] :
      rs \in [1..n -> Roles], cs \in [1..n -> Contents] }

Histories == UNION { HistoriesOfLen(n) : n \in 0..MaxMsgs }

\* what a chat client sends: plain text, untagged or tagged
ChatContents ==
  { StringContent(<<"hi">>),
    StringContent(<<MT, "gpt", RB, NL, NL, PT, "zed", RB, NL, NL, "hi">>) }

\* the histories of a chat request
ChatHistories ==
  { h \in Histories : \A i \in 1..Len(h) : h[i].content \in ChatContents }

\* where API keys may sit: the request's key map, the request's env, the process env
KeyConfigs ==
  { [apiKeys |-> <<>>, env |-> <<>>, procEnv |-> <<>>],
    [apiKeys |-> (<<"OpenAI">> :> <<"sk-a">>), env |-> <<>>, procEnv |-> <<>>],
    [apiKeys |-> (<<"zed">> :> <<"sk-z">>),
     env |-> (<<"OPENAI", "_API_KEY">> :> <<"sk-e">>), procEnv |-> <<>>] }

\* the key stores of two requests in a row: as above, and an unknown provider
\* served with the Anthropic key of the process
PairKeyConfigs ==
  KeyConfigs \cup
    { [apiKeys |-> (<<"zed">> :> <<"sk-z">>), env |-> <<>>,
       procEnv |-> (<<"ANTHROPIC", "_API_KEY">> :> <<"sk-p">>)] }

\* the values a key may take in the second request
KeyValues == { <<"sk-a">>, <<"sk-b">> }

FileMaps == { <<>>, <<[path |-> "a.ts", content |-> <<"x=1">>]>> }

\* the file map and the context-optimization flag of a chat request
FileConfigs ==
  { [files |-> <<>>, contextOptimization |-> FALSE],
    [files |-> <<[path |-> "a.ts", content |-> <<"x=1">>]>>, contextOptimization |-> TRUE] }

\* what the model answers (response.content.toString())
Responses == { <<NL, "ok", NL>>, <<PT, "zed", RB>> }

\* what a failing model call rejects with
InvokeErrors == { <<"network error">> }

NoResult == [present |-> FALSE, output |-> <<>>, usage |-> NoUsage, progressCounter |-> 0]
NoOrchestratorResult == [present |-> FALSE, text |-> <<>>, usage |-> NoUsage]

\* no chat request: the orchestrator or an agent is called directly
NoChatAction ==
  \* onFinish: the usage each onFinish callback was handed, in call order
  [at |-> "none", progressCounter |-> 1,
   cumulativeUsage |-> [completionTokens |-> 0, promptTokens |-> 0, totalTokens |-> 0],
   textChunks |-> <<>>,
   onFinish |-> <<>>]

\* no request was served before this one
NoFirstRun ==
  \* modelResults: how each model call of that request settled, in call order
  [done |-> FALSE, sink |-> <<>>, result |-> NoOrchestratorResult, thrown |-> NoError,
   modelResults |-> <<>>, apiKeys |-> <<>>, env |-> <<>>, procEnv |-> <<>>]

\* a page that has just loaded: the console not yet patched, console.logs undefined
\* (read as the empty list), the viewer component not mounted
NoBrowser ==
  \* capture:    enableLogCapture has patched the console methods
  \* loggerWrites: the scoped logger writes info lines to the console at its level
  \* logs:       console.logs
  \* viewerLogs, selectedFilter, isAutoRefreshing: the viewer component's state
  \* activity:   how many lines the rest of the page has written to the console
  \* returned:   what each viewAgentLogs call returned, with its filter and the
  \*             activity before it, in call order
  [capture |-> FALSE, loggerWrites |-> FALSE, logs |-> <<>>, mounted |-> FALSE,
   viewerLogs |-> <<>>,
   selectedFilter |-> "all", isAutoRefreshing |-> TRUE, activity |-> 0,
   returned |-> <<>>]

\* ---------------------------------------------------------------- state

VARIABLES
  messages,        \* options.messages, the caller's history
  apiKeys,         \* options.apiKeys
  env,             \* options.env
  procEnv,         \* process.env
  files,           \* options.files
  contextOptimization, \* options.contextOptimization
  caller,          \* who called the running agent: the orchestrator or a direct call
  variant,         \* which agent implementation runs: langchain or standard
  pc,              \* where the request is
  sink,            \* everything written to dataStream, in write order
  calls,           \* every execute call: agent, messages and context counter handed over
  invocations,     \* every model invocation: stage and model client
  agentMessages,   \* messages of the running execute call
  agentCounter,    \* context.progressCounter of the running execute call
  agentError,      \* what the last execute call threw
  selectedContext, \* selectedContext of the standard code generator
  enhancerResult,  \* AgentResult of the prompt enhancer
  codeGenResult,   \* AgentResult of the code generator
  progressCounter, \* the orchestrator's progressCounter
  result,          \* the OrchestratorResult returned
  thrown,          \* the error the orchestration rejected with
  fn,              \* the helper function called on its own, "none" before the call
  arg,             \* its argument
  ret,             \* what it returned
  chatAction,      \* the locals of the chat route's chatAction, NoChatAction outside a chat request
  firstRun,        \* what the caller saw of the request served before this one
  browser          \* the browser's console and the state of the log viewer component

vars == <<messages, apiKeys, env, procEnv, files, contextOptimization, caller, variant,
          pc, sink, calls, invocations, agentMessages, agentCounter, agentError,
          selectedContext, enhancerResult, codeGenResult, progressCounter, result, thrown,
          fn, arg, ret, chatAction, firstRun, browser>>

\* what a step of an agent or of the orchestrator leaves alone
inputs == <<messages, apiKeys, env, procEnv, files, contextOptimization, caller, variant,
            selectedContext, fn, arg, ret, chatAction, firstRun, browser>>

\* the state right after the orchestrator has built its agent context
Init ==
  /\ messages \in Histories
  /\ \E k \in KeyConfigs : apiKeys = k.apiKeys /\ env = k.env /\ procEnv = k.procEnv
  /\ \E f \in FileConfigs : files = f.files /\ contextOptimization = f.contextOptimization
  /\ selectedContext = <<>>
  /\ caller = "orchestrator"
  /\ variant = "langchain"
  /\ pc = "orchestrator_start"
  /\ sink = <<>>
  /\ calls = <<>>
  /\ invocations = <<>>
  /\ agentMessages = <<>>
  /\ agentCounter = 0
  /\ agentError = NoError
  /\ enhancerResult = NoResult
  /\ codeGenResult = NoResult
  /\ progressCounter = 0
  /\ result = NoOrchestratorResult
  /\ thrown = NoError
  /\ fn = "none"
  /\ arg = <<>>
  /\ ret = <<>>
  /\ chatAction = NoChatAction
  /\ firstRun = NoFirstRun
  /\ browser = NoBrowser

\* ---------------------------------------------------------------- agents (LangChain)

\* a counter that skips a number
NewProgressCounterSkipping(counter) == counter + 2

\* context.progressCounter + 1
NewProgressCounter(counter) == counter + 1

NoApiKeyError(provider) == <<"No API key available for provider: ">> \o provider

\* usage as the LangChain prompt enhancer estimates it
EnhancerUsage(prompt, enhancedText) ==
  [present |-> TRUE,
   promptTokens |-> CeilDiv4(StrLen(prompt)),
   completionTokens |-> CeilDiv4(StrLen(enhancedText)),
   totalTokens |-> CeilDiv4(StrLen(prompt) + StrLen(enhancedText))]

\* usage as the LangChain code generator estimates it
CodeGenUsage(systemMessage, prompt, generatedCode) ==
  [present |-> TRUE,
   promptTokens |-> CeilDiv4(StrLen(systemMessage) + StrLen(prompt)),
   completionTokens |-> CeilDiv4(StrLen(generatedCode)),
   totalTokens |-> CeilDiv4(StrLen(systemMessage) + StrLen(prompt) + StrLen(generatedCode))]

\* PromptEnhancerAgent.execute up to its model call: the user-message check, the
\* in-progress event, the API key, the model client and the prompt
EnhancerExecute ==
  /\ pc = "enhancer_execute"
  /\ variant = "langchain"
  /\ LET lastUserMessage == LastUserMessage(agentMessages)
         newProgressCounter == NewProgressCounter(agentCounter)
         messageContent == MessageContentText(lastUserMessage.content)
         modelInfo == NewestModelInfo(agentMessages)
         apiKey == getApiKey(apiKeys, env, procEnv, modelInfo.providerName)
         llm == createLangChainModel(modelInfo.providerName, modelInfo.model, apiKey, "0.2", procEnv)
         prompt == FormatPrompt("prompt_enhancer", messageContent)
         started == createProgressAnnotation("enhance", "Enhancing prompt...",
                                             "in-progress", newProgressCounter)
         failed == createProgressAnnotation("enhance", "Failed to enhance prompt",
                                            "error", newProgressCounter)
     IN IF lastUserMessage = NoMessage
        THEN /\ agentError' = <<"No user message found to enhance">>
             /\ pc' = "enhancer_threw"
             /\ UNCHANGED <<sink, invocations>>
        ELSE IF apiKey = <<>>
        THEN /\ sink' = sink \o <<started, failed>>
             /\ agentError' = NoApiKeyError(modelInfo.providerName)
             /\ pc' = "enhancer_threw"
             /\ UNCHANGED invocations
        ELSE /\ sink' = Append(sink, started)
             /\ invocations' = Append(invocations,
                                      [stage |-> "enhance", llm |-> llm, system |-> <<>>,
                                       input |-> prompt, messages |-> <<>>])
             /\ pc' = "enhancer_invoking"
             /\ UNCHANGED agentError
  /\ UNCHANGED <<inputs, calls, agentMessages, agentCounter, enhancerResult,
                 codeGenResult, progressCounter, result, thrown>>

\* the enhancer's model call resolves: the complete event and the AgentResult
EnhancerInvokeResolves ==
  /\ pc = "enhancer_invoking"
  /\ variant = "langchain"
  /\ \E response \in Responses :
       LET newProgressCounter == NewProgressCounter(agentCounter)
           prompt == FormatPrompt("prompt_enhancer",
                                  MessageContentText(LastUserMessage(agentMessages).content))
           enhancedText == Trim(response)
       IN /\ sink' = Append(sink, createProgressAnnotation("enhance",
                                    "Prompt enhanced successfully", "complete",
                                    newProgressCounter))
          /\ enhancerResult' = [present |-> TRUE, output |-> StringValue(enhancedText),
                                usage |-> EnhancerUsage(prompt, enhancedText),
                                progressCounter |-> newProgressCounter]
  /\ pc' = "enhancer_returned"
  /\ UNCHANGED <<inputs, calls, invocations, agentMessages, agentCounter, agentError,
                 codeGenResult, progressCounter, result, thrown>>

\* the enhancer's model call rejects: the terminal event, then the error is rethrown
EnhancerInvokeRejects ==
  /\ pc = "enhancer_invoking"
  /\ variant = "langchain"
  /\ \E error \in InvokeErrors :
       /\ sink' = Append(sink, createProgressAnnotation("enhance",
                                 "Failed to enhance prompt", "error",
                                 NewProgressCounter(agentCounter)))
       /\ agentError' = error
  /\ pc' = "enhancer_threw"
  /\ UNCHANGED <<inputs, calls, invocations, agentMessages, agentCounter, enhancerResult,
                 codeGenResult, progressCounter, result, thrown>>

\* CodeGeneratorAgent.execute up to its model call: the in-progress event, the
\* user-message check, the files context, the API key, the model client, the prompt
CodeGeneratorExecute ==
  /\ pc = "codegen_execute"
  /\ variant = "langchain"
  /\ LET newProgressCounter == NewProgressCounter(agentCounter)
         lastUserMessage == LastUserMessage(agentMessages)
         messageContent == MessageContentText(lastUserMessage.content)
         modelInfo == extractModelInfo(lastUserMessage)
         apiKey == getApiKey(apiKeys, env, procEnv, modelInfo.providerName)
         llm == createLangChainModel(modelInfo.providerName, modelInfo.model, apiKey, "0", procEnv)
         prompt == FormatPrompt("code_generator", messageContent)
         started == createProgressAnnotation("code-gen", "Generating code...",
                                             "in-progress", newProgressCounter)
         failed == createProgressAnnotation("code-gen", "Failed to generate code",
                                            "error", newProgressCounter)
     IN IF lastUserMessage = NoMessage
        THEN /\ sink' = sink \o <<started, failed>>
             /\ agentError' = <<"No user message found for code generation">>
             /\ pc' = "codegen_threw"
             /\ UNCHANGED invocations
        ELSE IF apiKey = <<>>
        THEN /\ sink' = sink \o <<started, failed>>
             /\ agentError' = NoApiKeyError(modelInfo.providerName)
             /\ pc' = "codegen_threw"
             /\ UNCHANGED invocations
        ELSE /\ sink' = Append(sink, started)
             /\ invocations' = Append(invocations,
                                      [stage |-> "code-gen", llm |-> llm,
                                       system |-> SystemMessage(files), input |-> prompt,
                                       messages |-> <<>>])
             /\ pc' = "codegen_invoking"
             /\ UNCHANGED agentError
  /\ UNCHANGED <<inputs, calls, agentMessages, agentCounter, enhancerResult,
                 codeGenResult, progressCounter, result, thrown>>

\* the code generator's model call resolves: the complete event and the AgentResult
CodeGenInvokeResolves ==
  /\ pc = "codegen_invoking"
  /\ variant = "langchain"
  /\ \E response \in Responses :
       LET newProgressCounter == NewProgressCounter(agentCounter)
           prompt == FormatPrompt("code_generator",
                                  MessageContentText(LastUserMessage(agentMessages).content))
           generatedCode == Trim(response)
       IN /\ sink' = Append(sink, createProgressAnnotation("code-gen",
                                    "Code generated successfully", "complete",
                                    newProgressCounter))
          /\ codeGenResult' = [present |-> TRUE, output |-> StringValue(generatedCode),
                               usage |-> CodeGenUsage(SystemMessage(files), prompt, generatedCode),
                               progressCounter |-> newProgressCounter]
  /\ pc' = "codegen_returned"
  /\ UNCHANGED <<inputs, calls, invocations, agentMessages, agentCounter, agentError,
                 enhancerResult, progressCounter, result, thrown>>

\* a rejection path that rethrows without writing the terminal event
CodeGenInvokeRejectsSilently ==
  /\ pc = "codegen_invoking"
  /\ variant = "langchain"
  /\ \E error \in InvokeErrors : agentError' = error
  /\ pc' = "codegen_threw"
  /\ UNCHANGED <<inputs, sink, calls, invocations, agentMessages, agentCounter,
                 enhancerResult, codeGenResult, progressCounter, result, thrown>>

\* the code generator's model call rejects: the terminal event, then the rethrow
CodeGenInvokeRejects ==
  /\ pc = "codegen_invoking"
  /\ variant = "langchain"
  /\ \E error \in InvokeErrors :
       /\ sink' = Append(sink, createProgressAnnotation("code-gen",
                                 "Failed to generate code", "error",
                                 NewProgressCounter(agentCounter)))
       /\ agentError' = error
  /\ pc' = "codegen_threw"
  /\ UNCHANGED <<inputs, calls, invocations, agentMessages, agentCounter, enhancerResult,
                 codeGenResult, progressCounter, result, thrown>>

\* ---------------------------------------------------------------- agents (standard)

\* what streamText resolves to: a text (plain, pending or failing) and maybe a usage
StreamResults ==
  { [text |-> StringValue(<<"ok">>), usage |-> NoUsage],
    [text |-> Resolved(StringValue(<<"ok">>)),
     usage |-> [present |-> TRUE, completionTokens |-> 1, promptTokens |-> 2, totalTokens |-> 3]],
    [text |-> NullValue,
     usage |-> [present |-> TRUE, completionTokens |-> 0, promptTokens |-> 2, totalTokens |-> 0]],
    [text |-> Rejected, usage |-> NoUsage] }

\* what selectContext resolves to
SelectedContexts == { <<"<selected context>">>, <<>> }

StreamTextClient ==
  [client |-> "streamText", apiKey |-> <<>>, modelName |-> <<>>, temperature |-> "",
   baseURL |-> <<>>]

\* awaiting result.text rejects when one of its pending layers rejects
AwaitRejects(v) == \E i \in 1..Len(v.wrappers) : v.wrappers[i] = "rejected"

\* typeof enhancedText === 'string' ? enhancedText : String(enhancedText || '')
ResolvedText(v) ==
  CASE v.type = "string" -> v.str
    [] v.type = "null" \/ v.type = "undefined" -> <<>>
    [] OTHER -> v.str

\* usage of a standard agent's AgentResult: the fields of the resolved usage, || 0
StdUsage(usage) ==
  IF usage.present
  THEN [present |-> TRUE, completionTokens |-> usage.completionTokens,
        promptTokens |-> usage.promptTokens, totalTokens |-> usage.totalTokens]
  ELSE NoUsage

\* the one user message the standard prompt enhancer sends to streamText
StdEnhancerInput(modelInfo, messageContent) ==
  <<MT>> \o modelInfo.model \o <<RB, NL, NL, PT>> \o modelInfo.providerName
    \o <<RB, NL, NL, "<enhancer instructions head>">> \o messageContent
    \o <<"<enhancer instructions tail>">>

\* messagesWithContext of the standard code generator
MessagesWithContext(msgs, context) ==
  IF context # <<>>
  THEN Append(msgs, [role |-> "system",
                     content |-> StringContent(<<"Context from the project files:", NL>> \o context),
                     id |-> Len(msgs) + 1])
  ELSE msgs

\* standard PromptEnhancerAgent.execute up to its streamText call
StdEnhancerExecute ==
  /\ pc = "enhancer_execute"
  /\ variant = "standard"
  /\ LET lastUserMessage == LastUserMessage(agentMessages)
         newProgressCounter == NewProgressCounter(agentCounter)
         messageContent == MessageContentText(lastUserMessage.content)
         modelInfo == NewestModelInfoStd(agentMessages)
     IN IF lastUserMessage = NoMessage
        THEN /\ agentError' = <<"No user message found to enhance">>
             /\ pc' = "enhancer_threw"
             /\ UNCHANGED <<sink, invocations>>
        ELSE /\ sink' = Append(sink, createProgressAnnotation("enhance",
                                       "Enhancing prompt...", "in-progress",
                                       newProgressCounter))
             /\ invocations' = Append(invocations,
                                      [stage |-> "enhance", llm |-> StreamTextClient,
                                       system |-> <<"<enhancer system prompt>">>,
                                       input |-> StdEnhancerInput(modelInfo, messageContent),
                                       messages |-> <<>>])
             /\ pc' = "enhancer_invoking"
             /\ UNCHANGED agentError
  /\ UNCHANGED <<inputs, calls, agentMessages, agentCounter, enhancerResult,
                 codeGenResult, progressCounter, result, thrown>>

\* streamText of the standard enhancer resolves: the text and usage are awaited,
\* then the complete event and the AgentResult; a failing text is caught
StdEnhancerStreamResolves ==
  /\ pc = "enhancer_invoking"
  /\ variant = "standard"
  /\ \E r \in StreamResults :
       LET newProgressCounter == NewProgressCounter(agentCounter)
       IN IF AwaitRejects(r.text)
          THEN /\ sink' = Append(sink, createProgressAnnotation("enhance",
                                         "Failed to enhance prompt", "error",
                                         newProgressCounter))
               /\ agentError' = <<"text stream failed">>
               /\ pc' = "enhancer_threw"
               /\ UNCHANGED enhancerResult
          ELSE /\ sink' = Append(sink, createProgressAnnotation("enhance",
                                         "Prompt enhanced successfully", "complete",
                                         newProgressCounter))
               /\ enhancerResult' = [present |-> TRUE,
                                     output |-> StringValue(ResolvedText(r.text)),
                                     usage |-> StdUsage(r.usage),
                                     progressCounter |-> newProgressCounter]
               /\ pc' = "enhancer_returned"
               /\ UNCHANGED agentError
  /\ UNCHANGED <<inputs, calls, invocations, agentMessages, agentCounter,
                 codeGenResult, progressCounter, result, thrown>>

\* streamText of the standard enhancer rejects
StdEnhancerStreamRejects ==
  /\ pc = "enhancer_invoking"
  /\ variant = "standard"
  /\ \E error \in InvokeErrors :
       /\ sink' = Append(sink, createProgressAnnotation("enhance",
                                 "Failed to enhance prompt", "error",
                                 NewProgressCounter(agentCounter)))
       /\ agentError' = error
  /\ pc' = "enhancer_threw"
  /\ UNCHANGED <<inputs, calls, invocations, agentMessages, agentCounter, enhancerResult,
                 codeGenResult, progressCounter, result, thrown>>

\* standard CodeGeneratorAgent.execute up to its first await: selectContext when
\* there are files and the flag is set, streamText otherwise
StdCodeGenExecute ==
  /\ pc = "codegen_execute"
  /\ variant = "standard"
  /\ sink' = Append(sink, createProgressAnnotation("code-gen", "Generating code...",
                            "in-progress", NewProgressCounter(agentCounter)))
  /\ IF files # <<>> /\ contextOptimization
     THEN /\ pc' = "codegen_selecting"
          /\ UNCHANGED <<invocations, selectedContext>>
     ELSE /\ selectedContext' = IF files # <<>> THEN createFilesContext(files) ELSE <<>>
          /\ invocations' = Append(invocations,
                                   [stage |-> "code-gen", llm |-> StreamTextClient,
                                    system |-> <<"<code generator system prompt>">>,
                                    input |-> selectedContext',
                                    messages |-> MessagesWithContext(agentMessages,
                                                                     selectedContext')])
          /\ pc' = "codegen_invoking"
  /\ UNCHANGED <<messages, apiKeys, env, procEnv, files, contextOptimization, caller,
                 variant, calls, agentMessages, agentCounter, agentError, enhancerResult,
                 codeGenResult, progressCounter, result, thrown, fn, arg, ret, chatAction, firstRun, browser>>

\* selectContext resolves: the reduced context, then the streamText call
StdSelectContextResolves ==
  /\ pc = "codegen_selecting"
  /\ \E selected \in SelectedContexts :
       /\ selectedContext' = selected
       /\ invocations' = Append(invocations,
                                [stage |-> "code-gen", llm |-> StreamTextClient,
                                 system |-> <<"<code generator system prompt>">>,
                                 input |-> selected,
                                 messages |-> MessagesWithContext(agentMessages, selected)])
  /\ pc' = "codegen_invoking"
  /\ UNCHANGED <<messages, apiKeys, env, procEnv, files, contextOptimization, caller,
                 variant, sink, calls, agentMessages, agentCounter, agentError,
                 enhancerResult, codeGenResult, progressCounter, result, thrown,
                 fn, arg, ret, chatAction, firstRun, browser>>

\* selectContext rejects: the terminal event, then the rethrow
StdSelectContextRejects ==
  /\ pc = "codegen_selecting"
  /\ \E error \in InvokeErrors :
       /\ sink' = Append(sink, createProgressAnnotation("code-gen",
                                 "Failed to generate code", "error",
                                 NewProgressCounter(agentCounter)))
       /\ agentError' = error
  /\ pc' = "codegen_threw"
  /\ UNCHANGED <<inputs, calls, invocations, agentMessages, agentCounter, enhancerResult,
                 codeGenResult, progressCounter, result, thrown>>

\* streamText of the standard code generator resolves
StdCodeGenStreamResolves ==
  /\ pc = "codegen_invoking"
  /\ variant = "standard"
  /\ \E r \in StreamResults :
       LET newProgressCounter == NewProgressCounter(agentCounter)
       IN IF AwaitRejects(r.text)
          THEN /\ sink' = Append(sink, createProgressAnnotation("code-gen",
                                         "Failed to generate code", "error",
                                         newProgressCounter))
               /\ agentError' = <<"text stream failed">>
               /\ pc' = "codegen_threw"
               /\ UNCHANGED codeGenResult
          ELSE /\ sink' = Append(sink, createProgressAnnotation("code-gen",
                                         "Code generated successfully", "complete",
                                         newProgressCounter))
               /\ codeGenResult' = [present |-> TRUE,
                                    output |-> StringValue(ResolvedText(r.text)),
                                    usage |-> StdUsage(r.usage),
                                    progressCounter |-> newProgressCounter]
               /\ pc' = "codegen_returned"
               /\ UNCHANGED agentError
  /\ UNCHANGED <<inputs, calls, invocations, agentMessages, agentCounter,
                 enhancerResult, progressCounter, result, thrown>>

\* streamText of the standard code generator rejects
StdCodeGenStreamRejects ==
  /\ pc = "codegen_invoking"
  /\ variant = "standard"
  /\ \E error \in InvokeErrors :
       /\ sink' = Append(sink, createProgressAnnotation("code-gen",
                                 "Failed to generate code", "error",
                                 NewProgressCounter(agentCounter)))
       /\ agentError' = error
  /\ pc' = "codegen_threw"
  /\ UNCHANGED <<inputs, calls, invocations, agentMessages, agentCounter, enhancerResult,
                 codeGenResult, progressCounter, result, thrown>>

\* ---------------------------------------------------------------- orchestrator

\* enhancerResult.usage?.<field> || 0
UsageField(usage, field) == IF usage.present THEN usage[field] ELSE 0

\* a combination that keeps the code generator's total only
CombineUsageLastTotal(a, b) ==
  [present |-> TRUE,
   completionTokens |-> UsageField(a, "completionTokens") + UsageField(b, "completionTokens"),
   promptTokens |-> UsageField(a, "promptTokens") + UsageField(b, "promptTokens"),
   totalTokens |-> UsageField(b, "totalTokens")]

\* combinedUsage of orchestrateLangChainAgents
CombineUsage(a, b) ==
  [present |-> TRUE,
   completionTokens |-> UsageField(a, "completionTokens") + UsageField(b, "completionTokens"),
   promptTokens |-> UsageField(a, "promptTokens") + UsageField(b, "promptTokens"),
   totalTokens |-> UsageField(a, "totalTokens") + UsageField(b, "totalTokens")]

\* enhancedUserMessage: the tags of modelInfo, then the enhanced prompt
EnhancedUserMessage(modelInfo, enhancedPrompt, newId) ==
  [role |-> "user",
   content |-> StringContent(<<MT>> \o modelInfo.model \o <<RB, NL, NL, PT>>
                               \o modelInfo.providerName \o <<RB, NL, NL>> \o enhancedPrompt),
   id |-> newId]

\* a replacement that takes the first user message instead of the last
ReplaceFirstUser(msgs, newMessage) ==
  IF \E i \in 1..Len(msgs) : msgs[i].role = "user"
  THEN [msgs EXCEPT ![CHOOSE i \in 1..Len(msgs) :
                        /\ msgs[i].role = "user"
                        /\ \A j \in 1..(i - 1) : msgs[j].role # "user"] = newMessage]
  ELSE Append(msgs, newMessage)

\* messagesWithEnhancedPrompt: a copy with the last user message replaced, or with
\* the new message appended when there is no user message
ReplaceLastUser(msgs, newMessage) ==
  IF LastUserIndex(msgs) # 0
  THEN [msgs EXCEPT ![LastUserIndex(msgs)] = newMessage]
  ELSE Append(msgs, newMessage)

\* an orchestrator that writes no comparison event
ComparisonEventsNone(original, enhanced) == <<>>

\* what the orchestrator writes to the sink between the two stages
ComparisonEvents(original, enhanced) == <<PromptComparison(original, enhanced)>>

\* a context that keeps the counter the agent context was built with
StaleContextCounter(contextCounter, returnedCounter) == contextCounter

\* updatedContext.progressCounter: the counter the enhancer returned
UpdatedContextCounter(contextCounter, returnedCounter) == returnedCounter

\* a catch that throws a new error in place of the one it caught
RethrownWrapped(error) == <<"Agent orchestration failed">>

\* catch (error) { throw error }
Rethrown(error) == error

\* orchestrateLangChainAgents up to its first await: it calls the prompt enhancer
\* with the caller's messages and the agent context
OrchestratorStart ==
  /\ pc = "orchestrator_start"
  /\ caller = "orchestrator"
  /\ calls' = Append(calls, [agent |-> "prompt_enhancer", messages |-> messages,
                             progressCounter |-> progressCounter])
  /\ agentMessages' = messages
  /\ agentCounter' = progressCounter
  /\ pc' = "enhancer_execute"
  /\ UNCHANGED <<inputs, sink, invocations, agentError, enhancerResult, codeGenResult,
                 progressCounter, result, thrown>>

\* the enhancer has returned: the comparison event, the counter, the replaced
\* message, and the call of the code generator with the updated context
OrchestratorAfterEnhancer ==
  /\ pc = "enhancer_returned"
  /\ caller = "orchestrator"
  /\ LET enhancedPrompt == ensureString(enhancerResult.output)
         modelInfo == NewestModelInfo(messages)
         enhancedUserMessage == EnhancedUserMessage(modelInfo, enhancedPrompt, Len(messages) + 1)
         messagesWithEnhancedPrompt == ReplaceLastUser(messages, enhancedUserMessage)
         updatedCounter == UpdatedContextCounter(progressCounter, enhancerResult.progressCounter)
     IN /\ sink' = sink \o ComparisonEvents(OriginalPromptText(messages), enhancedPrompt)
        /\ progressCounter' = enhancerResult.progressCounter
        /\ calls' = Append(calls, [agent |-> "code_generator",
                                   messages |-> messagesWithEnhancedPrompt,
                                   progressCounter |-> updatedCounter])
        /\ agentMessages' = messagesWithEnhancedPrompt
        /\ agentCounter' = updatedCounter
  /\ pc' = "codegen_execute"
  /\ UNCHANGED <<inputs, invocations, agentError, enhancerResult, codeGenResult,
                 result, thrown>>

\* the code generator has returned: the combined usage and the OrchestratorResult
OrchestratorFinish ==
  /\ pc = "codegen_returned"
  /\ caller = "orchestrator"
  /\ result' = [present |-> TRUE, text |-> ensureString(codeGenResult.output),
                usage |-> CombineUsage(enhancerResult.usage, codeGenResult.usage)]
  /\ pc' = "done"
  /\ UNCHANGED <<inputs, sink, calls, invocations, agentMessages, agentCounter, agentError,
                 enhancerResult, codeGenResult, progressCounter, thrown>>

\* a catch that falls back to the unenhanced prompt when the enhancer has thrown
OrchestratorCatchFallback ==
  /\ pc \in {"enhancer_threw", "codegen_threw"}
  /\ caller = "orchestrator"
  /\ IF pc = "enhancer_threw"
     THEN /\ calls' = Append(calls, [agent |-> "code_generator", messages |-> messages,
                                     progressCounter |-> progressCounter])
          /\ agentMessages' = messages
          /\ agentCounter' = progressCounter
          /\ pc' = "codegen_execute"
          /\ UNCHANGED thrown
     ELSE /\ thrown' = agentError
          /\ pc' = "error"
          /\ UNCHANGED <<calls, agentMessages, agentCounter>>
  /\ UNCHANGED <<inputs, sink, invocations, agentError, enhancerResult, codeGenResult,
                 progressCounter, result>>

\* a catch that calls the failed stage a second time before giving up
OrchestratorCatchRetry ==
  /\ pc \in {"enhancer_threw", "codegen_threw"}
  /\ caller = "orchestrator"
  /\ IF Len(calls) < 3
     THEN /\ calls' = Append(calls, calls[Len(calls)])
          /\ pc' = IF pc = "enhancer_threw" THEN "enhancer_execute" ELSE "codegen_execute"
          /\ UNCHANGED thrown
     ELSE /\ thrown' = agentError
          /\ pc' = "error"
          /\ UNCHANGED calls
  /\ UNCHANGED <<inputs, sink, invocations, agentMessages, agentCounter, agentError,
                 enhancerResult, codeGenResult, progressCounter, result>>

\* a catch that swallows the error and leaves the orchestration pending
OrchestratorCatchPending ==
  /\ pc \in {"enhancer_threw", "codegen_threw"}
  /\ caller = "orchestrator"
  /\ UNCHANGED vars

\* a stage has thrown: the orchestrator logs the error and rethrows it
OrchestratorCatch ==
  /\ pc \in {"enhancer_threw", "codegen_threw"}
  /\ caller = "orchestrator"
  /\ thrown' = Rethrown(agentError)
  /\ pc' = "error"
  /\ UNCHANGED <<inputs, sink, calls, invocations, agentMessages, agentCounter, agentError,
                 enhancerResult, codeGenResult, progressCounter, result>>

Next ==
  \/ OrchestratorStart
  \/ EnhancerExecute
  \/ EnhancerInvokeResolves
  \/ EnhancerInvokeRejects
  \/ OrchestratorAfterEnhancer
  \/ CodeGeneratorExecute
  \/ CodeGenInvokeResolves
  \/ CodeGenInvokeRejects
  \/ OrchestratorFinish
  \/ OrchestratorCatch

Spec == Init /\ [][Next]_vars

\* the steps the orchestration takes by itself: a continuation that is ready runs
Continuation ==
  \/ OrchestratorStart
  \/ EnhancerExecute
  \/ OrchestratorAfterEnhancer
  \/ CodeGeneratorExecute
  \/ OrchestratorFinish
  \/ OrchestratorCatch

\* a model call that is awaited settles
EnhancerInvokeSettles == EnhancerInvokeResolves \/ EnhancerInvokeRejects
CodeGenInvokeSettles == CodeGenInvokeResolves \/ CodeGenInvokeRejects

\* an orchestration of a chat client's history
InitLive == Init /\ messages \in ChatHistories

\* an orchestration whose ready continuations run and whose model calls settle
SpecLive ==
  /\ InitLive
  /\ [][Next]_vars
  /\ WF_vars(Continuation)
  /\ WF_vars(EnhancerInvokeSettles)
  /\ WF_vars(CodeGenInvokeSettles)

\* ---------------------------------------------------------------- two requests

\* how the model calls of the request settled, in call order: resolved with the
\* text the agent kept, or rejected with the error the agent rethrew (read once
\* the request has settled)
ModelResults ==
  LET invoked(stage) == \E i \in 1..Len(invocations) : invocations[i].stage = stage
      settled(stage, agentResult) ==
        IF ~invoked(stage) THEN <<>>
        ELSE IF agentResult.present
        THEN <<[stage |-> stage, resolved |-> TRUE, value |-> agentResult.output.str]>>
        ELSE <<[stage |-> stage, resolved |-> FALSE, value |-> agentError]>>
  IN settled("enhance", enhancerResult) \o settled("code-gen", codeGenResult)

\* the same key store with other values: the same names, a value wherever there
\* was one
Rekeyed(map) ==
  { m \in [DOMAIN map -> KeyValues \cup {<<>>}] :
      \A k \in DOMAIN map : (m[k] = <<>>) <=> (map[k] = <<>>) }

\* orchestrateLangChainAgents is called with a chat client's history
InitPair ==
  /\ messages \in ChatHistories
  /\ \E k \in PairKeyConfigs : apiKeys = k.apiKeys /\ env = k.env /\ procEnv = k.procEnv
  /\ \E f \in FileConfigs : files = f.files /\ contextOptimization = f.contextOptimization
  /\ selectedContext = <<>>
  /\ caller = "orchestrator"
  /\ variant = "langchain"
  /\ pc = "orchestrator_start"
  /\ sink = <<>>
  /\ calls = <<>>
  /\ invocations = <<>>
  /\ agentMessages = <<>>
  /\ agentCounter = 0
  /\ agentError = NoError
  /\ enhancerResult = NoResult
  /\ codeGenResult = NoResult
  /\ progressCounter = 0
  /\ result = NoOrchestratorResult
  /\ thrown = NoError
  /\ fn = "none"
  /\ arg = <<>>
  /\ ret = <<>>
  /\ chatAction = NoChatAction
  /\ firstRun = NoFirstRun
  /\ browser = NoBrowser

\* the request has settled and orchestrateLangChainAgents is called again with
\* the same options but for the key values: a fresh counter and agent context,
\* a fresh sink
StartSecondRun ==
  /\ pc \in {"done", "error"}
  /\ ~firstRun.done
  /\ firstRun' = [done |-> TRUE, sink |-> sink, result |-> result, thrown |-> thrown,
                  modelResults |-> ModelResults,
                  apiKeys |-> apiKeys, env |-> env, procEnv |-> procEnv]
  /\ apiKeys' \in Rekeyed(apiKeys)
  /\ env' \in Rekeyed(env)
  /\ procEnv' \in Rekeyed(procEnv)
  /\ pc' = "orchestrator_start"
  /\ sink' = <<>>
  /\ calls' = <<>>
  /\ invocations' = <<>>
  /\ agentMessages' = <<>>
  /\ agentCounter' = 0
  /\ agentError' = NoError
  /\ enhancerResult' = NoResult
  /\ codeGenResult' = NoResult
  /\ progressCounter' = 0
  /\ result' = NoOrchestratorResult
  /\ thrown' = NoError
  /\ UNCHANGED <<messages, files, contextOptimization, caller, variant, selectedContext,
                 fn, arg, ret, chatAction, browser>>

NextPair ==
  \/ OrchestratorStart
  \/ EnhancerExecute
  \/ EnhancerInvokeResolves
  \/ EnhancerInvokeRejects
  \/ OrchestratorAfterEnhancer
  \/ CodeGeneratorExecute
  \/ CodeGenInvokeResolves
  \/ CodeGenInvokeRejects
  \/ OrchestratorFinish
  \/ OrchestratorCatch
  \/ StartSecondRun

SpecPair == InitPair /\ [][NextPair]_vars

\* ---------------------------------------------------------------- one agent call

\* an agent's execute called on its own, with any history and context: the prompt
\* enhancer reads neither the files nor the flag, the standard agents hand the
\* keys to streamText unread
InitAgent ==
  /\ messages \in Histories
  /\ variant \in {"langchain", "standard"}
  /\ pc \in {"enhancer_execute", "codegen_execute"}
  /\ \E k \in KeyConfigs :
       /\ apiKeys = k.apiKeys /\ env = k.env /\ procEnv = k.procEnv
       /\ variant = "standard" => k.apiKeys = <<>> /\ k.env = <<>>
  /\ files \in FileMaps
  /\ contextOptimization \in BOOLEAN
  /\ pc = "enhancer_execute" => files = <<>> /\ contextOptimization = FALSE
  /\ selectedContext = <<>>
  /\ caller = "direct"
  /\ sink = <<>>
  /\ agentCounter \in {0, 1}
  /\ calls = <<[agent |-> IF pc = "enhancer_execute" THEN "prompt_enhancer"
                          ELSE "code_generator",
                messages |-> messages, progressCounter |-> agentCounter]>>
  /\ invocations = <<>>
  /\ agentMessages = messages
  /\ agentError = NoError
  /\ enhancerResult = NoResult
  /\ codeGenResult = NoResult
  /\ progressCounter = 0
  /\ result = NoOrchestratorResult
  /\ thrown = NoError
  /\ fn = "none"
  /\ arg = <<>>
  /\ ret = <<>>
  /\ chatAction = NoChatAction
  /\ firstRun = NoFirstRun
  /\ browser = NoBrowser

NextAgent ==
  \/ EnhancerExecute
  \/ EnhancerInvokeResolves
  \/ EnhancerInvokeRejects
  \/ CodeGeneratorExecute
  \/ CodeGenInvokeResolves
  \/ CodeGenInvokeRejects
  \/ StdEnhancerExecute
  \/ StdEnhancerStreamResolves
  \/ StdEnhancerStreamRejects
  \/ StdCodeGenExecute
  \/ StdSelectContextResolves
  \/ StdSelectContextRejects
  \/ StdCodeGenStreamResolves
  \/ StdCodeGenStreamRejects

SpecAgent == InitAgent /\ [][NextAgent]_vars

\* ---------------------------------------------------------------- chat route

\* String.prototype.split(''): the characters of one token
Characters(tok) ==
  CASE tok = MT -> <<"[", "M", "o", "d", "e", "l", ":", " ">>
    [] tok = PT -> <<"[", "P", "r", "o", "v", "i", "d", "e", "r", ":", " ">>
    [] tok = "hi" -> <<"h", "i">>
    [] tok = "ok" -> <<"o", "k">>
    [] tok = "gpt" -> <<"g", "p", "t">>
    [] tok = "zed" -> <<"z", "e", "d">>
    [] OTHER -> <<tok>>

\* a split that cuts between words, not between characters
SplitWords(s) == s

RECURSIVE SplitChars(_)
\* textResult.split('')
SplitChars(s) == IF s = <<>> THEN <<>> ELSE Characters(Head(s)) \o SplitChars(Tail(s))

\* a progress event the route writes as an object literal, its status as it is at run time
ProgressData(label, status, order, message) ==
  [type |-> "progress", label |-> label, status |-> status, order |-> order,
   message |-> message, original |-> <<>>, enhanced |-> <<>>]

\* dataStream.write(`0:${chunk}\n`)
TextChunk(chunk) == [type |-> "text", chunk |-> chunk]

\* the usage annotation of a finished request
UsageAnnotation(usage) ==
  [type |-> "usage",
   value |-> [completionTokens |-> usage.completionTokens,
              promptTokens |-> usage.promptTokens,
              totalTokens |-> usage.totalTokens]]

ChatSummaryAnnotation(summary, msgs) ==
  [type |-> "chatSummary", summary |-> summary,
   chatId |-> IF msgs = <<>> THEN 0 ELSE msgs[Len(msgs)].id]

CodeContextAnnotation(filteredFiles) ==
  [type |-> "codeContext", files |-> [i \in 1..Len(filteredFiles) |-> filteredFiles[i].path]]

\* what createDataStream writes when execute rejects: onError's text
StreamError(error) == [type |-> "error", chunk |-> <<"Custom error: ">> \o error]

\* cumulativeUsage after onFinish(resp): resp.usage may be absent
AddUsage(cumulativeUsage, usage) ==
  IF usage.present
  THEN [completionTokens |-> cumulativeUsage.completionTokens + usage.completionTokens,
        promptTokens |-> cumulativeUsage.promptTokens + usage.promptTokens,
        totalTokens |-> cumulativeUsage.totalTokens + usage.totalTokens]
  ELSE cumulativeUsage

\* the names chatAction overwrites in the env it hands to the agents
EnrichedNames ==
  { <<"ANTHROPIC", "_API_KEY">>, <<"OPENAI", "_API_KEY">>, <<"GROQ", "_API_KEY">>,
    <<"GOOGLE_GENERATIVE_AI", "_API_KEY">>, <<"MISTRAL", "_API_KEY">> }

\* enrichedEnv: the request's env with the five names set from process.env, to
\* undefined where process.env has none
EnrichedEnv(requestEnv, processEnv) ==
  [k \in (DOMAIN requestEnv) \cup EnrichedNames |->
     IF k \in EnrichedNames THEN Lookup(processEnv, k) ELSE requestEnv[k]]

\* what createSummary and selectContext report to onFinish
CollaboratorUsages ==
  { NoUsage,
    [present |-> TRUE, completionTokens |-> 1, promptTokens |-> 2, totalTokens |-> 3] }

Summaries == { <<"<summary>">> }

\* what createSummary or selectContext rejects with
CollaboratorErrors == { <<"summary failed">> }

\* chatAction has parsed the request and built its locals
InitChat ==
  /\ messages \in ChatHistories
  /\ \E k \in KeyConfigs : apiKeys = k.apiKeys /\ env = k.env /\ procEnv = k.procEnv
  /\ \E f \in FileConfigs : files = f.files /\ contextOptimization = f.contextOptimization
  /\ selectedContext = <<>>
  /\ caller = "orchestrator"
  /\ variant = "langchain"
  /\ pc = "not_called"
  /\ sink = <<>>
  /\ calls = <<>>
  /\ invocations = <<>>
  /\ agentMessages = <<>>
  /\ agentCounter = 0
  /\ agentError = NoError
  /\ enhancerResult = NoResult
  /\ codeGenResult = NoResult
  /\ progressCounter = 0
  /\ result = NoOrchestratorResult
  /\ thrown = NoError
  /\ fn = "none"
  /\ arg = <<>>
  /\ ret = <<>>
  /\ chatAction = [NoChatAction EXCEPT !.at = "start"]
  /\ firstRun = NoFirstRun
  /\ browser = NoBrowser

\* the 'response' in-progress event and the call of executeAgents, which runs the
\* LangChain orchestrator (the configured implementation) with the enriched env
\* and filteredFiles || files
CallExecuteAgents(written, locals, passedFiles) ==
  /\ sink' = Append(written, ProgressData("response", "in-progress", locals.progressCounter,
                                          "Starting multi-agent processing"))
  /\ chatAction' = [locals EXCEPT !.at = "execute_agents", !.progressCounter = @ + 1]
  /\ files' = passedFiles
  /\ env' = EnrichedEnv(env, procEnv)
  /\ progressCounter' = 0
  /\ pc' = "orchestrator_start"
  /\ UNCHANGED <<messages, apiKeys, procEnv, contextOptimization, caller, variant,
                 calls, invocations, agentMessages, agentCounter, agentError,
                 selectedContext, enhancerResult, codeGenResult, result, thrown,
                 fn, arg, ret, firstRun, browser>>

\* execute of the data stream up to its first await: with files and the flag the
\* 'summary' in-progress event and the call of createSummary, otherwise the agents
ChatActionStart ==
  /\ chatAction.at = "start"
  /\ IF files # <<>> /\ contextOptimization
     THEN /\ sink' = Append(sink, ProgressData("summary", "in-progress",
                                               chatAction.progressCounter,
                                               "Analysing Request"))
          /\ chatAction' = [chatAction EXCEPT !.at = "create_summary",
                                              !.progressCounter = @ + 1]
          /\ UNCHANGED <<messages, apiKeys, env, procEnv, files, contextOptimization,
                         caller, variant, pc, calls, invocations, agentMessages,
                         agentCounter, agentError, selectedContext, enhancerResult,
                         codeGenResult, progressCounter, result, thrown, fn, arg, ret, firstRun, browser>>
     ELSE CallExecuteAgents(sink, chatAction, files)

\* createSummary resolves, having called onFinish: the 'summary' complete event,
\* the chatSummary annotation, the 'context' in-progress event, the call of
\* selectContext
CreateSummaryResolves ==
  /\ chatAction.at = "create_summary"
  /\ \E usage \in CollaboratorUsages, summary \in Summaries :
       /\ sink' = sink \o
            << ProgressData("summary", "complete", chatAction.progressCounter,
                            "Analysis Complete"),
               ChatSummaryAnnotation(summary, messages),
               ProgressData("context", "in-progress", chatAction.progressCounter + 1,
                            "Determining Files to Read") >>
       /\ chatAction' = [chatAction EXCEPT !.at = "select_context",
                                           !.progressCounter = @ + 2,
                                           !.cumulativeUsage = AddUsage(@, usage),
                                           !.onFinish = Append(@, usage)]
  /\ UNCHANGED <<messages, apiKeys, env, procEnv, files, contextOptimization,
                 caller, variant, pc, calls, invocations, agentMessages,
                 agentCounter, agentError, selectedContext, enhancerResult,
                 codeGenResult, progressCounter, result, thrown, fn, arg, ret, firstRun, browser>>

\* createSummary or selectContext rejects: execute rejects outside the inner try,
\* the data stream reports the error and nothing more is written
CollaboratorRejects ==
  /\ chatAction.at \in {"create_summary", "select_context"}
  /\ \E error \in CollaboratorErrors : sink' = Append(sink, StreamError(error))
  /\ chatAction' = [chatAction EXCEPT !.at = "failed"]
  /\ UNCHANGED <<messages, apiKeys, env, procEnv, files, contextOptimization,
                 caller, variant, pc, calls, invocations, agentMessages,
                 agentCounter, agentError, selectedContext, enhancerResult,
                 codeGenResult, progressCounter, result, thrown, fn, arg, ret, firstRun, browser>>

\* selectContext resolves with the files it kept: the codeContext annotation, the
\* 'context' complete event, then the agents with the filtered files
SelectContextResolves ==
  /\ chatAction.at = "select_context"
  /\ \E usage \in CollaboratorUsages, filteredFiles \in {files, <<>>} :
       CallExecuteAgents(
         sink \o << CodeContextAnnotation(filteredFiles),
                    ProgressData("context", "complete", chatAction.progressCounter,
                                 "Code Files Selected") >>,
         [chatAction EXCEPT !.progressCounter = @ + 1,
                            !.cumulativeUsage = AddUsage(@, usage),
                            !.onFinish = Append(@, usage)],
         filteredFiles)

\* executeAgents resolves: the usage is added and the text is split into chunks
ExecuteAgentsResolves ==
  /\ chatAction.at = "execute_agents"
  /\ pc = "done"
  /\ chatAction' = [chatAction EXCEPT
                      !.at = "streaming",
                      !.cumulativeUsage = AddUsage(@, result.usage),
                      !.textChunks = SplitChars(ensureString(StringValue(result.text)))]
  /\ UNCHANGED <<messages, apiKeys, env, procEnv, files, contextOptimization,
                 caller, variant, pc, sink, calls, invocations, agentMessages,
                 agentCounter, agentError, selectedContext, enhancerResult,
                 codeGenResult, progressCounter, result, thrown, fn, arg, ret, firstRun, browser>>

\* one turn of the chunk loop: a chunk is written, then the loop yields
WriteTextChunk ==
  /\ chatAction.at = "streaming"
  /\ chatAction.textChunks # <<>>
  /\ sink' = Append(sink, TextChunk(<<Head(chatAction.textChunks)>>))
  /\ chatAction' = [chatAction EXCEPT !.textChunks = Tail(@)]
  /\ UNCHANGED <<messages, apiKeys, env, procEnv, files, contextOptimization,
                 caller, variant, pc, calls, invocations, agentMessages,
                 agentCounter, agentError, selectedContext, enhancerResult,
                 codeGenResult, progressCounter, result, thrown, fn, arg, ret, firstRun, browser>>

\* after the last chunk: the usage annotation and the 'response' complete event
ChatActionFinish ==
  /\ chatAction.at = "streaming"
  /\ chatAction.textChunks = <<>>
  /\ sink' = sink \o << UsageAnnotation(chatAction.cumulativeUsage),
                        ProgressData("response", "complete", chatAction.progressCounter,
                                     "Response Generated") >>
  /\ chatAction' = [chatAction EXCEPT !.at = "finished", !.progressCounter = @ + 1]
  /\ UNCHANGED <<messages, apiKeys, env, procEnv, files, contextOptimization,
                 caller, variant, pc, calls, invocations, agentMessages,
                 agentCounter, agentError, selectedContext, enhancerResult,
                 codeGenResult, progressCounter, result, thrown, fn, arg, ret, firstRun, browser>>

\* a catch that also reports the usage counted so far
ExecuteAgentsRejectsWithUsage ==
  /\ chatAction.at = "execute_agents"
  /\ pc = "error"
  /\ sink' = sink \o << ProgressData("response", "error", chatAction.progressCounter,
                                     "Error generating response"),
                        TextChunk(<<"An error occurred while processing your request: ">>
                                    \o thrown),
                        UsageAnnotation(chatAction.cumulativeUsage) >>
  /\ chatAction' = [chatAction EXCEPT !.at = "finished", !.progressCounter = @ + 1]
  /\ UNCHANGED <<messages, apiKeys, env, procEnv, files, contextOptimization,
                 caller, variant, pc, calls, invocations, agentMessages,
                 agentCounter, agentError, selectedContext, enhancerResult,
                 codeGenResult, progressCounter, result, thrown, fn, arg, ret, firstRun, browser>>

\* executeAgents rejects: the catch writes a 'response' event whose status is
\* 'error' at run time (the cast is erased) and one text chunk with the message
ExecuteAgentsRejects ==
  /\ chatAction.at = "execute_agents"
  /\ pc = "error"
  /\ sink' = sink \o << ProgressData("response", "error", chatAction.progressCounter,
                                     "Error generating response"),
                        TextChunk(<<"An error occurred while processing your request: ">>
                                    \o thrown) >>
  /\ chatAction' = [chatAction EXCEPT !.at = "finished", !.progressCounter = @ + 1]
  /\ UNCHANGED <<messages, apiKeys, env, procEnv, files, contextOptimization,
                 caller, variant, pc, calls, invocations, agentMessages,
                 agentCounter, agentError, selectedContext, enhancerResult,
                 codeGenResult, progressCounter, result, thrown, fn, arg, ret, firstRun, browser>>

NextChat ==
  \/ ChatActionStart
  \/ CreateSummaryResolves
  \/ CollaboratorRejects
  \/ SelectContextResolves
  \/ OrchestratorStart
  \/ EnhancerExecute
  \/ EnhancerInvokeResolves
  \/ EnhancerInvokeRejects
  \/ OrchestratorAfterEnhancer
  \/ CodeGeneratorExecute
  \/ CodeGenInvokeResolves
  \/ CodeGenInvokeRejects
  \/ OrchestratorFinish
  \/ OrchestratorCatch
  \/ ExecuteAgentsResolves
  \/ WriteTextChunk
  \/ ChatActionFinish
  \/ ExecuteAgentsRejects

SpecChat == InitChat /\ [][NextChat]_vars

\* ---------------------------------------------------------------- helper calls

\* no chat request is running: a helper function is called on its own
NoRequest ==
  /\ messages = <<>>
  /\ files = <<>>
  /\ contextOptimization = FALSE
  /\ selectedContext = <<>>
  /\ caller = "direct"
  /\ variant = "langchain"
  /\ pc = "helper"
  /\ sink = <<>>
  /\ calls = <<>>
  /\ invocations = <<>>
  /\ agentMessages = <<>>
  /\ agentCounter = 0
  /\ agentError = NoError
  /\ enhancerResult = NoResult
  /\ codeGenResult = NoResult
  /\ progressCounter = 0
  /\ result = NoOrchestratorResult
  /\ thrown = NoError
  /\ chatAction = NoChatAction
  /\ firstRun = NoFirstRun
  /\ browser = NoBrowser

pipeline == <<messages, apiKeys, env, procEnv, files, contextOptimization, caller, variant,
              pc, sink, calls, invocations, agentMessages, agentCounter, agentError,
              selectedContext, enhancerResult, codeGenResult, progressCounter, result, thrown,
              chatAction, firstRun, browser>>

\* model and provider names as the client writes them into a tag: words, also
\* several of them or none
Names == { <<"gpt">>, <<"gpt-4o">>, <<"OpenAI">>, <<"zed", "hi">>, <<>> }

\* what separates and follows the two tags: nothing, or the blank line the
\* orchestrator and the standard enhancer write
Separators == { <<>>, <<NL, NL>> }

\* the text after the tags: plain, tagged itself, or a model tag running into a
\* provider tag
Rests ==
  { <<"hi">>,
    <<MT, "gpt", RB, NL, NL, PT, "zed", RB, NL, NL, "hi">>,
    <<PT, "OpenAI", RB, MT, "gpt", PT, "zed", RB>> }

\* `[Model: ${model}]<sep>[Provider: ${providerName}]<sep>${rest}`
TaggedText(model, providerName, sep, rest) ==
  <<MT>> \o model \o <<RB>> \o sep \o <<PT>> \o providerName \o <<RB>> \o sep \o rest

\* a message whose text is t: as a string, or as parts with the text part second
MessageOf(kind, t) ==
  [role |-> "user",
   content |-> IF kind = "string" THEN StringContent(t)
               ELSE ArrayContent(<<ImagePart, TextPart(t)>>),
   id |-> 1]

TaggedMessages ==
  { MessageOf(kind, TaggedText(m, p, sep, rest)) :
      kind \in {"string", "array"}, m \in Names, p \in Names,
      sep \in Separators, rest \in Rests }

\* texts with one tag only, with a tag that is never closed or is cut by a line
\* break, and the empty text
PartlyTaggedTexts ==
  { <<>>,
    <<"hi">>,
    <<MT, "gpt", RB, NL, NL, "hi">>,
    <<PT, "zed", RB, NL, NL, "hi">>,
    <<"hi", PT, "zed", RB>>,
    <<MT, "gpt">>,
    <<MT, "gpt", NL, RB, "hi">>,
    <<PT, "zed", NL, RB, MT, "gpt", RB>> }

\* messages without one or both tags; a content that is neither a string nor an
\* array (undefined, a number) and a content of images only have no text
UntaggedMessages ==
  { MessageOf(kind, t) : kind \in {"string", "array"}, t \in PartlyTaggedTexts }
    \cup { [role |-> "user", content |-> ArrayContent(<<ImagePart>>), id |-> 1],
           [role |-> "user", content |-> ArrayContent(<<>>), id |-> 1],
           [role |-> "user", content |-> ArrayContent(<<ImagePart, TextPart(<<>>),
                                                        TextPart(<<MT, "gpt", RB>>)>>), id |-> 1],
           [role |-> "user", content |-> [kind |-> "other", text |-> <<>>, parts |-> <<>>],
            id |-> 1] }

\* extractModelInfo is handed one message
InitTags ==
  /\ NoRequest
  /\ apiKeys = <<>> /\ env = <<>> /\ procEnv = <<>>
  /\ fn = "none"
  /\ arg \in TaggedMessages \cup UntaggedMessages
  /\ ret = <<>>

\* extractModelInfo(message) of the LangChain agents
ExtractModelInfoCall ==
  /\ pc = "helper"
  /\ fn = "none"
  /\ fn' = "extractModelInfo"
  /\ ret' = extractModelInfo(arg)
  /\ UNCHANGED <<pipeline, arg>>

\* extractModelInfo(message) of the standard prompt enhancer
ExtractModelInfoStdCall ==
  /\ pc = "helper"
  /\ fn = "none"
  /\ fn' = "extractModelInfoStd"
  /\ ret' = extractModelInfoStd(arg)
  /\ UNCHANGED <<pipeline, arg>>

NextTags ==
  \/ ExtractModelInfoCall
  \/ ExtractModelInfoStdCall

SpecTags == InitTags /\ [][NextTags]_vars

\* provider names as a tag or a caller may give them
ProviderNames == { <<"OpenAI">>, <<"openai">>, <<"Anthropic">>, <<"groq">>, <<"zed">> }

\* context.apiKeys: empty, one provider, two providers, a name in lower case, an
\* entry holding the empty string
ApiKeyMaps ==
  { <<>>,
    (<<"OpenAI">> :> <<"sk-a">>),
    (<<"Anthropic">> :> <<"sk-ant">>),
    (<<"zed">> :> <<"sk-z">>),
    (<<"Anthropic">> :> <<"sk-ant">>) @@ (<<"zed">> :> <<"sk-z">>),
    (<<"openai">> :> <<"sk-l">>),
    (<<"OpenAI">> :> <<>>) @@ (<<"Groq">> :> <<"sk-g">>) }

\* context.env and process.env
EnvMaps(key) ==
  { <<>>,
    (<<"OPENAI", "_API_KEY">> :> key),
    (<<"ANTHROPIC", "_API_KEY">> :> key),
    (<<"ZED", "_API_KEY">> :> key) @@ (<<"GROQ", "_API_KEY">> :> key) }

\* getApiKey(context, provider) or createLangChainModel({provider, model, apiKey})
\* is called in a process and for a request that hold any of these keys
InitKeys ==
  /\ NoRequest
  /\ apiKeys \in ApiKeyMaps
  /\ env \in EnvMaps(<<"sk-e">>)
  /\ procEnv \in EnvMaps(<<"sk-p">>)
  /\ fn = "none"
  /\ arg \in [provider : ProviderNames, model : {<<"gpt">>, <<>>}, apiKey : {<<"sk-x">>, <<>>}]
  /\ ret = <<>>

\* getApiKey(context, provider)
GetApiKeyCall ==
  /\ pc = "helper"
  /\ fn = "none"
  /\ fn' = "getApiKey"
  /\ ret' = getApiKey(apiKeys, env, procEnv, arg.provider)
  /\ UNCHANGED <<pipeline, arg>>

\* createLangChainModel({provider, model, apiKey}), temperature left at its default
CreateLangChainModelCall ==
  /\ pc = "helper"
  /\ fn = "none"
  /\ fn' = "createLangChainModel"
  /\ ret' = createLangChainModel(arg.provider, arg.model, arg.apiKey, "0", procEnv)
  /\ UNCHANGED <<pipeline, arg>>

NextKeys ==
  \/ GetApiKeyCall
  \/ CreateLangChainModelCall

SpecKeys == InitKeys /\ [][NextKeys]_vars

\* the settled values ensureString may be handed
SettledValues ==
  { StringValue(t) : t \in {<<>>, <<"hi">>, <<NL, "ok", NL>>, <<MT, "gpt", RB, "hi">>} }
    \cup { NullValue, UndefinedValue, BooleanValue(TRUE), BooleanValue(FALSE) }
    \cup { NumberValue(n) : n \in {0, 7, 42, -1} }
    \cup { ObjectValue(ps, cyc) :
             ps \in { <<>>, <<[key |-> "a", value |-> <<"hi">>]>>,
                      <<[key |-> "a", value |-> <<"hi", NL>>], [key |-> "b", value |-> <<>>]>> },
             cyc \in {FALSE} }
    \cup { ObjectValue(<<[key |-> "a", value |-> <<"hi">>], [key |-> "b", value |-> <<>>]>>, TRUE),
           ArrayValue(<<>>, FALSE),
           ArrayValue(<<[key |-> "0", value |-> <<"hi">>], [key |-> "1", value |-> <<"ok">>]>>, FALSE),
           ArrayValue(<<[key |-> "0", value |-> <<"hi">>]>>, TRUE) }

RECURSIVE Wrapped(_, _)
\* v inside n layers of pending values that resolve
Wrapped(v, n) == IF n = 0 THEN v ELSE Resolved(Wrapped(v, n - 1))

\* every settled value inside up to MaxWrappers resolving layers, and a rejecting
\* pending value inside fewer
CoerceInputs ==
  { Wrapped(v, n) : v \in SettledValues, n \in 0..MaxWrappers }
    \cup { Wrapped(Rejected, n) : n \in 0..(MaxWrappers - 1) }

\* ensureString is handed one value
InitCoerce ==
  /\ NoRequest
  /\ apiKeys = <<>> /\ env = <<>> /\ procEnv = <<>>
  /\ fn = "none"
  /\ arg \in CoerceInputs
  /\ ret = <<>>

\* ensureString(value) settles
EnsureStringCall ==
  /\ pc = "helper"
  /\ fn = "none"
  /\ fn' = "ensureString"
  /\ ret' = ensureStringSettles(arg)
  /\ UNCHANGED <<pipeline, arg>>

NextCoerce == EnsureStringCall

SpecCoerce == InitCoerce /\ [][NextCoerce]_vars

\* ---------------------------------------------------------------- log viewer

\* LogFilterMode
LogFilterModes == { "all", "orchestrator", "prompt-enhancer", "code-generator", "errors" }

\* log.includes(pattern)
Includes(log, pattern) ==
  \E i \in 0..(Len(log) - Len(pattern)) : SubSeq(log, i + 1, i + Len(pattern)) = pattern

\* what the filter of a mode looks for in a line
FilterPattern(mode) ==
  CASE mode = "orchestrator" -> <<"agent.", "orchestrator">>
    [] mode = "prompt-enhancer" -> <<"agent.", "prompt-enhancer">>
    [] mode = "code-generator" -> <<"agent.", "code-generator">>
    [] mode = "errors" -> <<"ERROR">>
    [] OTHER -> <<"agent.">>

\* logs.filter(log => log.includes(...)) of viewAgentLogs
FilterLogs(logs, mode) ==
  SelectSeq(logs, LAMBDA log : Includes(log, FilterPattern(mode)))

\* the lines viewAgentLogs prints with console.log: the header, one numbered line
\* for each filtered log, the footer
Printed(filteredLogs, mode) ==
  << <<"============ AGENT LOGS ============">>,
     <<"Filter: ", mode>>,
     <<"Found ", ToString(Len(filteredLogs)), " logs">>,
     <<"===================================">> >>
    \o [i \in 1..Len(filteredLogs) |-> <<"[", ToString(i), "] ">> \o filteredLogs[i]]
    \o << <<"===================================">> >>

\* what a patched console method pushes onto console.logs for the lines written;
\* an unpatched console keeps nothing
Captured(lines, capture) == IF capture THEN lines ELSE <<>>

\* logger.info(message) of the scoped logger 'log-viewer': one console line, or
\* none below the logger's level
LoggerInfo(writes, message) ==
  IF writes THEN << <<"INFO", " ", "log-viewer", " ">> \o message >> ELSE <<>>

\* logger.info(`Viewing agent logs with filter: ${mode}`)
Announced(b, mode) == LoggerInfo(b.loggerWrites, <<"Viewing agent logs with filter: ", mode>>)

\* viewAgentLogs(mode): the buffer afterwards and the list returned
viewAgentLogs(b, mode) ==
  LET logs == b.logs \o Captured(Announced(b, mode), b.capture)
      filteredLogs == FilterLogs(logs, mode)
  IN [logs |-> logs \o Captured(Printed(filteredLogs, mode), b.capture),
      filteredLogs |-> filteredLogs]

\* the browser after a viewAgentLogs(mode) call
Viewed(b, mode) ==
  LET view == viewAgentLogs(b, mode)
  IN [b EXCEPT !.logs = view.logs,
               !.returned = Append(@, [mode |-> mode, filteredLogs |-> view.filteredLogs,
                                       activity |-> b.activity])]

\* fetchLogs of the viewer component: with window.viewAgentLogs defined it views
\* with the selected filter and keeps the list
FetchLogs(b) ==
  IF ~b.capture THEN b
  ELSE LET after == Viewed(b, b.selectedFilter)
       IN [after EXCEPT !.viewerLogs = after.returned[Len(after.returned)].filteredLogs]

\* what the rest of the page writes to the console: lines of the agent loggers,
\* an error, a line of another scope
ConsoleLines ==
  { <<"DEBUG", " ", "agent.", "orchestrator", " ", "started">>,
    <<"INFO", " ", "agent.", "prompt-enhancer", " ", "done">>,
    <<"ERROR", " ", "agent.", "code-generator", " ", "failed">>,
    <<"DEBUG", " ", "api.chat", " ", "request">> }

\* the page has loaded in development mode with nothing on the console yet
InitLogs ==
  /\ NoRequest
  /\ apiKeys = <<>> /\ env = <<>> /\ procEnv = <<>>
  /\ fn = "none"
  /\ arg = <<>>
  /\ ret = <<>>

\* everything but the browser
server == <<messages, apiKeys, env, procEnv, files, contextOptimization, caller, variant,
            pc, sink, calls, invocations, agentMessages, agentCounter, agentError,
            selectedContext, enhancerResult, codeGenResult, progressCounter, result, thrown,
            fn, arg, ret, chatAction, firstRun>>

\* whether another viewAgentLogs call is taken
MayView == Len(browser.returned) < MaxViews

\* setupLogViewer() of the client entry: enableLogCapture patches the console and
\* window.viewAgentLogs is defined; two lines go through the logger, whose level
\* the page was built with
SetupLogViewer ==
  /\ ~browser.capture
  /\ \E writes \in BOOLEAN :
       browser' = [browser EXCEPT
                     !.capture = TRUE,
                     !.loggerWrites = writes,
                     !.logs = @ \o Captured(LoggerInfo(writes, <<"Log capture enabled">>)
                                              \o LoggerInfo(writes, <<"Log viewer setup complete.">>),
                                            TRUE)]
  /\ UNCHANGED server

\* the page writes a line to the console
ConsoleActivity ==
  /\ browser.activity < MaxActivity
  /\ \E line \in ConsoleLines :
       browser' = [browser EXCEPT !.logs = @ \o Captured(<<line>>, browser.capture),
                                  !.activity = @ + 1]
  /\ UNCHANGED server

\* the viewer component mounts: its effect fetches once and starts the interval
MountViewer ==
  /\ ~browser.mounted
  /\ MayView
  /\ browser' = [FetchLogs(browser) EXCEPT !.mounted = TRUE]
  /\ UNCHANGED server

\* the interval of the auto-refresh fires: fetchLogs
AutoRefreshTick ==
  /\ browser.mounted
  /\ browser.isAutoRefreshing
  /\ MayView
  /\ browser' = FetchLogs(browser)
  /\ UNCHANGED server

\* handleManualRefresh: fetchLogs
HandleManualRefresh ==
  /\ browser.mounted
  /\ MayView
  /\ browser' = FetchLogs(browser)
  /\ UNCHANGED server

\* handleFilterChange: the selected filter changes and the effect runs again,
\* fetching with the new filter
HandleFilterChange ==
  /\ browser.mounted
  /\ MayView
  /\ \E mode \in LogFilterModes \ {browser.selectedFilter} :
       browser' = FetchLogs([browser EXCEPT !.selectedFilter = mode])
  /\ UNCHANGED server

\* toggleAutoRefresh: the flag flips and the effect runs again, fetching once
ToggleAutoRefresh ==
  /\ browser.mounted
  /\ MayView
  /\ browser' = FetchLogs([browser EXCEPT !.isAutoRefreshing = ~@])
  /\ UNCHANGED server

\* window.viewAgentLogs(mode) typed into the browser console
ConsoleViewAgentLogs ==
  /\ browser.capture
  /\ MayView
  /\ \E mode \in LogFilterModes : browser' = Viewed(browser, mode)
  /\ UNCHANGED server

NextLogs ==
  \/ SetupLogViewer
  \/ ConsoleActivity
  \/ MountViewer
  \/ AutoRefreshTick
  \/ HandleManualRefresh
  \/ HandleFilterChange
  \/ ToggleAutoRefresh
  \/ ConsoleViewAgentLogs

SpecLogs == InitLogs /\ [][NextLogs]_vars

\* ---------------------------------------------------------------- properties

HasUser(msgs) == \E i \in 1..Len(msgs) : msgs[i].role = "user"

CallsOf(agent) == { i \in 1..Len(calls) : calls[i].agent = agent }
InvocationsOf(stage) == { i \in 1..Len(invocations) : invocations[i].stage = stage }
ComparisonsWritten == { i \in 1..Len(sink) : sink[i].type = "prompt-comparison" }
ProgressWritten == { i \in 1..Len(sink) : sink[i].type = "progress" }

\* the enhancer's execute has failed: it threw and returned no result
EnhancerFailed ==
  /\ ~enhancerResult.present
  /\ pc \in {"enhancer_threw", "error"}

\* C1: the code generator is called only after the prompt enhancer has returned a
\* result; when the enhancer's execute fails, the code generator is never called or
\* invoked, no prompt-comparison event is written, no result is produced, and the
\* next step of the orchestration is to reject with the enhancer's error.
C1_EnhancerFailureAborts ==
  /\ [](/\ CallsOf("code_generator") # {} => enhancerResult.present
        /\ ComparisonsWritten # {} => enhancerResult.present
        /\ EnhancerFailed =>
             /\ CallsOf("code_generator") = {}
             /\ InvocationsOf("code-gen") = {}
             /\ ComparisonsWritten = {}
             /\ ~result.present
             /\ agentError # NoError
        /\ (EnhancerFailed /\ pc = "error") => thrown = agentError)
  /\ [][pc = "enhancer_threw" => pc' = "error"]_vars

\* the orchestration has rejected because the enhancer failed after it had started
C1_Witness ==
  /\ pc = "error"
  /\ ~enhancerResult.present
  /\ thrown = <<"network error">>
  /\ Len(sink) = 2

\* C2: in a successful run each field of OrchestratorResult.usage is the enhancer's
\* value plus the code generator's value, an absent usage counting as zero.
C2_UsageIsSum ==
  result.present =>
    LET e == enhancerResult.usage
        g == codeGenResult.usage
    IN /\ result.usage.completionTokens =
            (IF e.present THEN e.completionTokens ELSE 0)
              + (IF g.present THEN g.completionTokens ELSE 0)
       /\ result.usage.promptTokens =
            (IF e.present THEN e.promptTokens ELSE 0)
              + (IF g.present THEN g.promptTokens ELSE 0)
       /\ result.usage.totalTokens =
            (IF e.present THEN e.totalTokens ELSE 0)
              + (IF g.present THEN g.totalTokens ELSE 0)

\* a successful run in which both stages report tokens
C2_Witness ==
  /\ result.present
  /\ enhancerResult.usage.totalTokens > 0
  /\ codeGenResult.usage.totalTokens > 0
  /\ result.usage.totalTokens > codeGenResult.usage.totalTokens

InputIds == { messages[i].id : i \in 1..Len(messages) }

\* the independent reading of "index of the original last user message"
IsLastUserIndex(i) ==
  /\ i \in 1..Len(messages)
  /\ messages[i].role = "user"
  /\ \A j \in (i + 1)..Len(messages) : messages[j].role # "user"

\* C3: for a history with a user message, the sequence handed to the code generator
\* has the input's length, holds exactly one new message, with role user, at the
\* index of the original last user message, and equals the input elsewhere; the
\* caller's sequence is never changed.
C3_ReplacementFrame ==
  /\ [](\A c \in CallsOf("code_generator") :
          HasUser(messages) =>
            LET handed == calls[c].messages
            IN /\ Len(handed) = Len(messages)
               /\ \A i \in 1..Len(messages) :
                    IF IsLastUserIndex(i)
                    THEN handed[i].role = "user" /\ handed[i].id \notin InputIds
                    ELSE handed[i] = messages[i]
               /\ Cardinality({ i \in 1..Len(handed) : handed[i].id \notin InputIds }) = 1)
  /\ [][messages' = messages]_vars

\* the code generator was handed a history whose last user message is not the
\* newest message
C3_Witness ==
  /\ CallsOf("code_generator") # {}
  /\ Len(messages) = 2
  /\ messages[1].role = "user"
  /\ messages[2].role = "assistant"

IsProgress(e) == e.type = "progress"

\* the progress events of the sink, in write order
ProgressEvents == SelectSeq(sink, IsProgress)

\* C4 as stated: across a successful run the order values of the progress events
\* are, in write order, strictly increasing and contiguous from the starting
\* counter value.
C4_StrictlyIncreasingOrders ==
  result.present =>
    /\ ProgressEvents[1].order \in {calls[1].progressCounter, calls[1].progressCounter + 1}
    /\ \A k \in 1..(Len(ProgressEvents) - 1) :
         ProgressEvents[k + 1].order = ProgressEvents[k].order + 1

\* C4 (amended): across a successful run the order values of the progress events
\* are, in write order, non-decreasing and without gaps from the starting counter
\* value plus one; the in-progress and the complete event of one stage carry the
\* same order, and the order grows by one from the enhance stage to the code-gen
\* stage.
C4_OrdersContiguousByStage ==
  result.present =>
    /\ Len(ProgressEvents) = 4
    /\ ProgressEvents[1].order = calls[1].progressCounter + 1
    /\ \A k \in 1..(Len(ProgressEvents) - 1) :
         IF ProgressEvents[k + 1].label = ProgressEvents[k].label
         THEN ProgressEvents[k + 1].order = ProgressEvents[k].order
         ELSE ProgressEvents[k + 1].order = ProgressEvents[k].order + 1
    /\ ProgressEvents[1].label = ProgressEvents[2].label
    /\ ProgressEvents[2].label # ProgressEvents[3].label
    /\ ProgressEvents[3].label = ProgressEvents[4].label

\* a successful run has written the four progress events of its two stages
C4_Witness ==
  /\ result.present
  /\ Len(ProgressEvents) = 4
  /\ ProgressEvents[4].order = 2

\* the execute call of the one-agent specification has returned or thrown
CallFinished ==
  pc \in {"enhancer_returned", "enhancer_threw", "codegen_returned", "codegen_threw"}

CallLabel == IF calls[1].agent = "prompt_enhancer" THEN "enhance" ELSE "code-gen"

\* exactly two progress events: in-progress, then a terminal one, both with the
\* stage label and order = context.progressCounter + 1
TwoProgressEvents ==
  /\ Len(sink) = 2
  /\ \A i \in 1..2 :
       /\ sink[i].type = "progress"
       /\ sink[i].label = CallLabel
       /\ sink[i].order = calls[1].progressCounter + 1
  /\ sink[1].status = "in-progress"
  /\ sink[2].status \in {"complete", "error"}

\* C5 as stated: every execute call, of either agent and either variant, succeeding
\* or failing, writes exactly two progress events.
C5_AlwaysTwoEvents == CallFinished => TwoProgressEvents

\* C5 (amended): every execute call writes exactly two progress events (in-progress,
\* then a terminal one, both with the stage label and order = counter + 1), except
\* a prompt-enhancer call on a history without a user message, which throws before
\* it writes any event; while the call is pending only the in-progress event is
\* written.
C5_TwoEventsUnlessNoUser ==
  /\ CallFinished =>
       IF calls[1].agent = "prompt_enhancer" /\ ~HasUser(calls[1].messages)
       THEN sink = <<>>
       ELSE TwoProgressEvents
  /\ pc \in {"enhancer_invoking", "codegen_invoking", "codegen_selecting"} =>
       /\ Len(sink) = 1
       /\ sink[1].status = "in-progress"
       /\ sink[1].label = CallLabel
       /\ sink[1].order = calls[1].progressCounter + 1

\* a LangChain code generator call whose model call failed has written its two events
C5_Witness ==
  /\ pc = "codegen_threw"
  /\ variant = "langchain"
  /\ agentError = <<"network error">>
  /\ calls[1].progressCounter = 1
  /\ Len(sink) = 2

\* C6: a successful execute returns context.progressCounter + 1, the orchestrator
\* hands the enhancer's returned counter to the code generator, and so, from 0, the
\* enhance events carry order 1 and the code-gen events order 2.
C6_CounterPropagated ==
  /\ enhancerResult.present =>
       enhancerResult.progressCounter = calls[1].progressCounter + 1
  /\ \A c \in CallsOf("code_generator") :
       calls[c].progressCounter = enhancerResult.progressCounter
  /\ codeGenResult.present =>
       \A c \in CallsOf("code_generator") :
         codeGenResult.progressCounter = calls[c].progressCounter + 1
  /\ \A i \in ProgressWritten :
       /\ sink[i].label = "enhance" => sink[i].order = 1
       /\ sink[i].label = "code-gen" => sink[i].order = 2

\* the code generator has returned and its events carry order 2
C6_Witness ==
  /\ codeGenResult.present
  /\ codeGenResult.progressCounter = 2
  /\ \E i \in ProgressWritten : sink[i].label = "code-gen" /\ sink[i].order = 2

\* the enhancer call has gone past its user-message check
EnhancerChecked == pc \in {"enhancer_invoking", "enhancer_returned", "enhancer_threw"}

\* C7: the prompt enhancer, in both variants, raises 'No user message found to
\* enhance' exactly when the history holds no message with role user.
C7_MissingInputIffNoUser ==
  EnhancerChecked =>
    (agentError = <<"No user message found to enhance">>
       <=> \A i \in 1..Len(agentMessages) : agentMessages[i].role # "user")

\* the standard enhancer has raised the error on a history of two non-user messages
C7_Witness ==
  /\ pc = "enhancer_threw"
  /\ variant = "standard"
  /\ Len(agentMessages) = 2
  /\ agentError = <<"No user message found to enhance">>

\* C8: with zero user messages the orchestration rejects before any model
\* invocation and no enhance event with status complete is written.
C8_NoUserRejectsEarly ==
  ~HasUser(messages) =>
    /\ invocations = <<>>
    /\ \A i \in 1..Len(sink) : ~(sink[i].label = "enhance" /\ sink[i].status = "complete")
    /\ ~result.present
    /\ pc \in {"orchestrator_start", "enhancer_execute", "enhancer_threw", "error"}
    /\ pc = "error" => thrown = <<"No user message found to enhance">>

\* the orchestration has rejected a non-empty history without user message although
\* a key was available
C8_Witness ==
  /\ pc = "error"
  /\ Len(messages) = 2
  /\ ~HasUser(messages)
  /\ apiKeys # <<>>
  /\ sink = <<>>

\* the code generator has thrown the missing-key error after the enhancer succeeded
CodeGenKeyFailure ==
  /\ enhancerResult.present
  /\ pc \in {"codegen_threw", "error"}
  /\ agentError # NoError
  /\ Head(agentError) = "No API key available for provider: "

\* C9: when the enhancer succeeds and the code generator then fails for want of an
\* API key, the prompt-comparison event is already in the sink (before the code-gen
\* events), the orchestration rejects with that error, and no result is produced.
C9_KeyFailureAfterComparison ==
  /\ [](CodeGenKeyFailure =>
          /\ \E c \in ComparisonsWritten :
               \A i \in ProgressWritten : sink[i].label = "code-gen" => c < i
          /\ ~result.present
          /\ ~codeGenResult.present
          /\ InvocationsOf("code-gen") = {}
          /\ pc = "error" => thrown = agentError)
  /\ [][pc = "codegen_threw" => pc' = "error" /\ ~result'.present]_vars

\* the enhancer ran with the OpenAI key, the code generator resolved provider zed
\* from the replaced message and found no key
C9_Witness ==
  /\ pc = "error"
  /\ enhancerResult.present
  /\ thrown = <<"No API key available for provider: ", "zed">>

\* C10: no retries: each stage's execute and the model behind it run at most once,
\* and a failing stage makes the orchestration reject with that stage's error
\* without another call or invocation.
C10_NoRetries ==
  /\ [](/\ Cardinality(CallsOf("prompt_enhancer")) <= 1
        /\ Cardinality(CallsOf("code_generator")) <= 1
        /\ Cardinality(InvocationsOf("enhance")) <= 1
        /\ Cardinality(InvocationsOf("code-gen")) <= 1
        /\ pc = "error" => thrown = agentError /\ thrown # NoError /\ ~result.present)
  /\ [][(pc \in {"enhancer_threw", "codegen_threw"}) =>
          (pc' = "error" /\ thrown' = agentError /\ calls' = calls
             /\ invocations' = invocations)]_vars

\* the code generator's model call failed and the orchestration rejected with it
C10_Witness ==
  /\ pc = "error"
  /\ enhancerResult.present
  /\ thrown = <<"network error">>
  /\ Cardinality(InvocationsOf("code-gen")) = 1

\* a stage's model call is pending / the stage has thrown
StageInvoking == pc \in {"enhancer_invoking", "codegen_invoking"}
StageThrew == pc \in {"enhancer_threw", "codegen_threw"}

\* C11: when a stage's model invocation fails, the stage appends its terminal progress
\* event, with the label and order of its in-progress event, and throws the
\* invocation's own error; the orchestrator rethrows that error unchanged and writes
\* nothing; once the orchestration has rejected nothing is written any more.
C11_ErrorEventThenRethrow ==
  /\ [][(StageInvoking /\ StageThrew') =>
          (/\ Len(sink') = Len(sink) + 1
           /\ SubSeq(sink', 1, Len(sink)) = sink
           /\ sink'[Len(sink')].type = "progress"
           /\ sink'[Len(sink')].status \in {"complete", "error"}
           /\ sink[Len(sink)].status = "in-progress"
           /\ sink'[Len(sink')].label = sink[Len(sink)].label
           /\ sink'[Len(sink')].order = sink[Len(sink)].order
           /\ agentError' \in InvokeErrors
           /\ invocations' = invocations)]_vars
  /\ [][StageThrew =>
          (pc' = "error" /\ thrown' = agentError /\ sink' = sink /\ ~result'.present)]_vars
  /\ [][pc # "error"]_vars

\* the code generator's model call failed after the enhancer had succeeded: the sink
\* ends with the code-gen terminal event and the orchestration has rejected
C11_Witness ==
  /\ pc = "error"
  /\ thrown \in InvokeErrors
  /\ Len(sink) = 5
  /\ sink[5].label = "code-gen"
  /\ sink[4].status = "in-progress"
  /\ sink[5].order = sink[4].order

\* the orchestrator has gone past the point where it writes the comparison event
PastComparison ==
  pc \in {"codegen_execute", "codegen_invoking", "codegen_returned", "codegen_threw", "done"}
    \/ (pc = "error" /\ enhancerResult.present)

\* C12: when the enhancer succeeds exactly one prompt-comparison event is written,
\* right after the enhance stage's complete event and before the code-gen in-progress
\* event; its original is the content of the original last user message as it stands
\* (the text of a string content, the JSON text of a structured content, no tag
\* removed), its enhanced is the string the enhancer's output coerces to; the stage
\* that runs next is the code generator whatever the event holds.
C12_OneComparisonBetweenStages ==
  /\ [](/\ Cardinality(ComparisonsWritten) <= 1
        /\ ComparisonsWritten # {} => enhancerResult.present
        /\ PastComparison =>
             /\ Cardinality(ComparisonsWritten) = 1
             /\ \A c \in ComparisonsWritten :
                  LET last == messages[CHOOSE i \in 1..Len(messages) : IsLastUserIndex(i)]
                  IN /\ c = 3
                     /\ sink[c - 1].label = "enhance" /\ sink[c - 1].status = "complete"
                     /\ \A i \in ProgressWritten : sink[i].label = "code-gen" => c < i
                     /\ Len(sink) > c =>
                          sink[c + 1].label = "code-gen" /\ sink[c + 1].status = "in-progress"
                     /\ last.content.kind = "string" => sink[c].original = last.content.text
                     /\ last.content.kind = "array" =>
                          /\ Head(sink[c].original) = "["
                          /\ sink[c].original[Len(sink[c].original)] = "]"
                          /\ SubSeq(sink[c].original, 2, Len(sink[c].original) - 1)
                               = JsonParts(last.content.parts)
                     /\ enhancerResult.output.wrappers = <<>>
                     /\ enhancerResult.output.type = "string"
                     /\ sink[c].enhanced = enhancerResult.output.str)
  /\ [][pc = "enhancer_returned" =>
         (pc' = "codegen_execute" /\ Len(sink') = Len(sink) + 1
            /\ sink'[Len(sink')].type = "prompt-comparison")]_vars

\* the comparison event of a run whose last user message is not the newest message
\* and carries tags
C12_Witness ==
  /\ pc = "done"
  /\ Len(messages) = 2
  /\ messages[1].role = "user"
  /\ messages[2].role = "assistant"
  /\ messages[1].content # messages[2].content
  /\ \E c \in ComparisonsWritten :
       /\ Head(sink[c].original) = MT
       /\ sink[c].enhanced = <<"ok">>

\* C13: in every run that reaches the code generator, the model and provider the
\* code generator resolves from the last user message of the sequence it is handed
\* are the model and provider the prompt enhancer resolved from the newest message
\* of the original history, whatever the contents hold.
C13_SameModelAndProvider ==
  \A c \in CallsOf("code_generator") :
    extractModelInfo(LastUserMessage(calls[c].messages)) = NewestModelInfo(calls[1].messages)

\* C14: the replacement user message resolves to the model and provider of the
\* message it replaces, also when that message is not the newest of the history.
C14_ReplacementKeepsTags ==
  \A c \in CallsOf("code_generator") :
    \A i \in 1..Len(messages) :
      IsLastUserIndex(i) =>
        extractModelInfo(calls[c].messages[i]) = extractModelInfo(messages[i])

TextRead(message) ==
  IF message.content.kind = "string" THEN message.content.text
  ELSE IF message.content.kind = "array"
            /\ \E i \in 1..Len(message.content.parts) : message.content.parts[i].type = "text"
  THEN LET ps == message.content.parts
       IN ps[CHOOSE i \in 1..Len(ps) :
               ps[i].type = "text" /\ \A j \in 1..(i - 1) : ps[j].type # "text"].text
  ELSE <<>>

Carries(text, tag) == \E i \in 1..Len(text) : text[i] = tag

\* C16: a message whose text carries no model tag resolves to the resolver's default
\* model, one whose text carries no provider tag to its default provider, each
\* whatever the other tag does; a content without text or with an empty text resolves
\* to both defaults.
C16_DefaultsPerTag ==
  fn # "none" =>
    LET defaultModel == IF fn = "extractModelInfo" THEN <<"gpt-4o">> ELSE <<"gpt-4">>
        defaultProvider == IF fn = "extractModelInfo" THEN <<"OpenAI">> ELSE <<"openai">>
    IN /\ ~Carries(TextRead(arg), MT) => ret.model = defaultModel
       /\ ~Carries(TextRead(arg), PT) => ret.providerName = defaultProvider
       /\ TextRead(arg) = <<>> =>
            ret = [model |-> defaultModel, providerName |-> defaultProvider]

\* a message with a model tag only has got the default provider and its own model
C16_Witness ==
  /\ fn = "extractModelInfo"
  /\ arg = MessageOf("string", <<MT, "gpt", RB, NL, NL, "hi">>)
  /\ ret = [model |-> <<"gpt">>, providerName |-> <<"OpenAI">>]

\* the name under which the key map holds a provider's key: the display name of a
\* provider the code knows, the name as given otherwise
DisplayName(provider) ==
  CASE provider \in {<<"Anthropic">>, <<"anthropic">>} -> <<"Anthropic">>
    [] provider \in {<<"OpenAI">>, <<"openai">>} -> <<"OpenAI">>
    [] provider \in {<<"Groq">>, <<"groq">>} -> <<"Groq">>
    [] OTHER -> provider

\* <PROVIDER>_API_KEY
EnvKeyName(provider) ==
  CASE provider \in {<<"Anthropic">>, <<"anthropic">>} -> <<"ANTHROPIC", "_API_KEY">>
    [] provider \in {<<"OpenAI">>, <<"openai">>} -> <<"OPENAI", "_API_KEY">>
    [] provider \in {<<"Groq">>, <<"groq">>} -> <<"GROQ", "_API_KEY">>
    [] provider = <<"zed">> -> <<"ZED", "_API_KEY">>
    [] OTHER -> <<"?">>

Entry(map, key) == IF key \in DOMAIN map THEN map[key] ELSE <<>>

\* the three places a provider's key may come from, in the order of the claim
KeySources(provider) ==
  << Entry(apiKeys, DisplayName(provider)),
     Entry(env, EnvKeyName(provider)),
     Entry(procEnv, EnvKeyName(provider)) >>

\* C17: getApiKey returns the first non-empty value among the key map entry for the
\* provider's display name, the request env entry <PROVIDER>_API_KEY and the process
\* env variable of that name, in this order, and the empty string when none is set.
C17_KeyLookupOrder ==
  fn = "getApiKey" =>
    LET src == KeySources(arg.provider)
    IN /\ src[1] # <<>> => ret = src[1]
       /\ (src[1] = <<>> /\ src[2] # <<>>) => ret = src[2]
       /\ (src[1] = <<>> /\ src[2] = <<>>) => ret = src[3]
       /\ (\A i \in 1..3 : src[i] = <<>>) => ret = <<>>

\* the key map holds an empty entry for OpenAI and both envs hold a key: the request
\* env's key was returned
C17_Witness ==
  /\ fn = "getApiKey"
  /\ arg.provider = <<"openai">>
  /\ <<"OpenAI">> \in DOMAIN apiKeys
  /\ Entry(procEnv, <<"OPENAI", "_API_KEY">>) = <<"sk-p">>
  /\ ret = <<"sk-e">>

Recognized(provider) ==
  provider \in {<<"Anthropic">>, <<"anthropic">>, <<"OpenAI">>, <<"openai">>,
                 <<"Groq">>, <<"groq">>}

\* an Anthropic key is set in one of the places getApiKey looks at
AnthropicKeyAvailable == \E i \in 1..3 : KeySources(<<"Anthropic">>)[i] # <<>>

\* C19: for a provider other than anthropic, openai and groq createLangChainModel
\* builds an Anthropic client with model claude-3-sonnet-20240229 whenever an
\* Anthropic key is available in the key map, the request env or the process env,
\* and otherwise an OpenAI client with the passed key and the requested model.
C19_AnthropicFromAnySource ==
  (fn = "createLangChainModel" /\ ~Recognized(arg.provider)) =>
    IF AnthropicKeyAvailable
    THEN ret.client = "ChatAnthropic" /\ ret.modelName = <<"claude-3-sonnet-20240229">>
    ELSE /\ ret.client = "ChatOpenAI"
         /\ ret.apiKey = arg.apiKey
         /\ arg.model # <<>> => ret.modelName = arg.model

\* the provider the called stage resolves: the enhancer from the newest message, the
\* code generator from the last user message
StageProvider ==
  IF calls[1].agent = "prompt_enhancer"
  THEN extractModelInfo(agentMessages[Len(agentMessages)]).providerName
  ELSE extractModelInfo(LastUserMessage(agentMessages)).providerName

\* no key is set for the provider in any of the three places
NoKeyFor(provider) == \A i \in 1..3 : KeySources(provider)[i] = <<>>

\* C18: a LangChain agent that has resolved its provider and finds no API key for it
\* fails with 'No API key available for provider: <provider>', builds and invokes no
\* model client and takes no other provider's key, also for a provider the code does
\* not know while another provider's key is set.
C18_MissingKeyFails ==
  (variant = "langchain" /\ HasUser(agentMessages)
     /\ pc \notin {"enhancer_execute", "codegen_execute"} /\ NoKeyFor(StageProvider)) =>
    /\ pc \in {"enhancer_threw", "codegen_threw"}
    /\ agentError = <<"No API key available for provider: ">> \o StageProvider
    /\ invocations = <<>>
    /\ ~enhancerResult.present /\ ~codeGenResult.present

\* the code generator found no key for provider zed while the OpenAI key was set
C18_Witness ==
  /\ variant = "langchain"
  /\ pc = "codegen_threw"
  /\ Entry(apiKeys, <<"OpenAI">>) # <<>>
  /\ agentError = <<"No API key available for provider: ", "zed">>
  /\ invocations = <<>>

\* the value inside all pending layers
Innermost(v) == [v EXCEPT !.wrappers = <<>>]

C21_NoErrorStatusInSink ==
  \A i \in 1..Len(sink) :
    IsProgress(sink[i]) => sink[i].status \in {"in-progress", "complete"}

\* C22: within one chat request the order values of the progress events, the
\* route's and the agents' together, never decrease in write order.
C22_OrdersNeverDecrease ==
  \A i, j \in 1..Len(ProgressEvents) :
    i < j => ProgressEvents[i].order <= ProgressEvents[j].order

\* ---------------------------------------------------------------- code generator context

\* the file context that reaches the model in code generator invocation k: the
\* content of the added system message (standard) or what follows the fixed
\* system instruction (LangChain)
InjectedContext(k) ==
  IF variant = "standard"
  THEN invocations[k].input
  ELSE IF Len(invocations[k].system) > 2
       THEN SubSeq(invocations[k].system, 3, Len(invocations[k].system))
       ELSE <<>>

\* nothing was added to what the model is sent
NothingAdded(k) ==
  IF variant = "standard"
  THEN invocations[k].messages = agentMessages
  ELSE invocations[k].system = <<"<code generator system message>">>

\* C23 as stated: in both variants a non-empty file map is injected reduced by the
\* selection collaborator when the flag is set and in full when it is not, and
\* with no files nothing is injected and no message is added.
C23_ContextFollowsFlag ==
  \A k \in InvocationsOf("code-gen") :
    /\ files = <<>> => (InjectedContext(k) = <<>> /\ NothingAdded(k))
    /\ (files # <<>> /\ ~contextOptimization) =>
         InjectedContext(k) = createFilesContext(files)
    /\ (files # <<>> /\ contextOptimization) =>
         (InjectedContext(k) \in SelectedContexts /\ InjectedContext(k) = selectedContext)

\* C23 amended: the standard code generator injects the reduced context when the
\* flag is set and the full file context when it is not; the LangChain code
\* generator injects the full file context whatever the flag says; with no files
\* neither injects anything or adds a message.
C23_ContextPerVariant ==
  \A k \in InvocationsOf("code-gen") :
    /\ files = <<>> => (InjectedContext(k) = <<>> /\ NothingAdded(k))
    /\ (files # <<>> /\ (variant = "langchain" \/ ~contextOptimization)) =>
         (InjectedContext(k) = createFilesContext(files) /\ ~NothingAdded(k))
    /\ (files # <<>> /\ variant = "standard" /\ contextOptimization) =>
         /\ InjectedContext(k) \in SelectedContexts
         /\ InjectedContext(k) = selectedContext
         /\ invocations[k].messages = MessagesWithContext(agentMessages, selectedContext)

\* the LangChain code generator has invoked its model with files and the flag set
C23_Witness ==
  /\ variant = "langchain"
  /\ pc = "codegen_invoking"
  /\ files # <<>>
  /\ contextOptimization
  /\ InvocationsOf("code-gen") # {}

\* ---------------------------------------------------------------- chat route outcome

\* positions of the sink that hold an entry of one type
SinkOfType(type) == { i \in 1..Len(sink) : sink[i].type = type }

\* positions of the progress events with one label
SinkOfLabel(label) == { i \in 1..Len(sink) : IsProgress(sink[i]) /\ sink[i].label = label }

\* the request is over and executeAgents had rejected
ChatFailed == chatAction.at = "finished" /\ pc = "error"

\* the request is over and executeAgents had returned a result
ChatSucceeded == chatAction.at = "finished" /\ pc = "done"

\* C24: when executeAgents rejects with E the route writes one terminal 'response'
\* progress event and right after it exactly one text chunk that carries E's
\* message; it writes no usage annotation and no 'Response Generated' event and
\* streams nothing of a generated text.
C24_SingleFailure ==
  ChatFailed =>
    /\ Len(sink) >= 3
    /\ thrown = agentError
    /\ sink[Len(sink)] =
         TextChunk(<<"An error occurred while processing your request: ">> \o agentError)
    /\ SinkOfType("text") = {Len(sink)}
    /\ IsProgress(sink[Len(sink) - 1])
    /\ sink[Len(sink) - 1].label = "response"
    /\ sink[Len(sink) - 1].message = "Error generating response"
    /\ Cardinality(SinkOfLabel("response")) = 2
    /\ SinkOfType("usage") = {}
    /\ \A i \in 1..Len(sink) : IsProgress(sink[i]) => sink[i].message # "Response Generated"
    /\ ~result.present
    /\ chatAction.textChunks = <<>>

\* the code generator's model call failed after the enhancer had succeeded, and the
\* route has reported it
C24_Witness ==
  /\ ChatFailed
  /\ enhancerResult.present
  /\ agentError = <<"network error">>
  /\ sink[Len(sink)].type = "text"

\* where the route's 'response' in-progress event sits in the sink
ResponseStart ==
  CHOOSE i \in SinkOfLabel("response") : sink[i].status = "in-progress"

RECURSIVE SumOfReported(_, _)
\* one usage field summed over what the onFinish callbacks were handed, an absent
\* usage counting as zero
SumOfReported(usages, field) ==
  IF usages = <<>> THEN 0
  ELSE (IF Head(usages).present THEN Head(usages)[field] ELSE 0)
         + SumOfReported(Tail(usages), field)

\* the entries the two agents and the orchestrator write in a successful run
AgentEntriesAfter(r) ==
  /\ sink[r + 1].label = "enhance" /\ sink[r + 1].status = "in-progress"
  /\ sink[r + 2].label = "enhance" /\ sink[r + 2].status = "complete"
  /\ sink[r + 3].type = "prompt-comparison"
  /\ sink[r + 4].label = "code-gen" /\ sink[r + 4].status = "in-progress"
  /\ sink[r + 5].label = "code-gen" /\ sink[r + 5].status = "complete"

\* C25: a successful chat request has written, in this order, the 'response'
\* in-progress event, the agents' events, one text chunk per character of the
\* orchestrator's text, one usage annotation with the sum of the summary, the
\* context-selection and the orchestrator usage, and last the 'response' complete
\* event; no text chunk is in the sink before the code generator has completed.
C25_SuccessfulRequestOrder ==
  /\ ChatSucceeded =>
       LET r == ResponseStart
           n == Len(sink)
           c == StrLen(result.text)
       IN /\ n = r + 5 + c + 2
          /\ sink[r].message = "Starting multi-agent processing"
          /\ AgentEntriesAfter(r)
          /\ \A i \in 1..c :
               /\ sink[r + 5 + i].type = "text"
               /\ Len(sink[r + 5 + i].chunk) = 1
               /\ sink[r + 5 + i].chunk[1] = SplitChars(result.text)[i]
          /\ SinkOfType("text") = (r + 6)..(r + 5 + c)
          /\ SinkOfType("usage") = {n - 1}
          /\ \A f \in {"completionTokens", "promptTokens", "totalTokens"} :
               sink[n - 1].value[f] =
                 SumOfReported(chatAction.onFinish, f) + result.usage[f]
          /\ IsProgress(sink[n])
          /\ sink[n].label = "response"
          /\ sink[n].status = "complete"
          /\ sink[n].message = "Response Generated"
  /\ (SinkOfType("text") # {} /\ pc # "error") =>
       /\ pc = "done"
       /\ codeGenResult.present
       /\ \E g \in SinkOfLabel("code-gen") :
            /\ sink[g].status = "complete"
            /\ \A t \in SinkOfType("text") : g < t

\* a request with summary and context selection, both reporting usage, has
\* streamed a result of fifteen characters
C25_Witness ==
  /\ ChatSucceeded
  /\ Len(chatAction.onFinish) = 2
  /\ chatAction.onFinish[1].present
  /\ chatAction.onFinish[2].present
  /\ Cardinality(SinkOfType("text")) = 15

\* ---------------------------------------------------------------- usage estimates

\* tokens is a quarter of chars, rounded up
IsCeilOfQuarter(tokens, chars) == 4 * tokens >= chars /\ 4 * tokens < chars + 4

\* prompt and completion of a usage are each the ceiling of a quarter of their
\* characters
PartsEstimated(usage, promptChars, completionChars) ==
  /\ IsCeilOfQuarter(usage.promptTokens, promptChars)
  /\ IsCeilOfQuarter(usage.completionTokens, completionChars)

\* characters of the prompt of model invocation k: system message and input
PromptChars(k) == StrLen(invocations[k].system) + StrLen(invocations[k].input)

\* C26 as stated: for every successful LangChain stage and for the combined
\* result totalTokens equals promptTokens + completionTokens, prompt and
\* completion each being the ceiling of a quarter of their characters.
C26_TotalIsSumOfParts ==
  /\ enhancerResult.present =>
       /\ PartsEstimated(enhancerResult.usage, PromptChars(1),
                         StrLen(enhancerResult.output.str))
       /\ enhancerResult.usage.totalTokens =
            enhancerResult.usage.promptTokens + enhancerResult.usage.completionTokens
  /\ codeGenResult.present =>
       /\ PartsEstimated(codeGenResult.usage, PromptChars(2),
                         StrLen(codeGenResult.output.str))
       /\ codeGenResult.usage.totalTokens =
            codeGenResult.usage.promptTokens + codeGenResult.usage.completionTokens
  /\ result.present =>
       result.usage.totalTokens = result.usage.promptTokens + result.usage.completionTokens

\* C26 amended: prompt and completion tokens of a successful LangChain stage are
\* each the ceiling of a quarter of their characters and totalTokens is the
\* ceiling of a quarter of all characters together, which is the sum of the two
\* or one less; the combined total is the sum of the combined parts or up to two
\* less.
C26_TotalIsEstimateOfWhole ==
  /\ enhancerResult.present =>
       /\ PartsEstimated(enhancerResult.usage, PromptChars(1),
                         StrLen(enhancerResult.output.str))
       /\ IsCeilOfQuarter(enhancerResult.usage.totalTokens,
                          PromptChars(1) + StrLen(enhancerResult.output.str))
       /\ enhancerResult.usage.promptTokens + enhancerResult.usage.completionTokens
            - enhancerResult.usage.totalTokens \in {0, 1}
  /\ codeGenResult.present =>
       /\ PartsEstimated(codeGenResult.usage, PromptChars(2),
                         StrLen(codeGenResult.output.str))
       /\ IsCeilOfQuarter(codeGenResult.usage.totalTokens,
                          PromptChars(2) + StrLen(codeGenResult.output.str))
       /\ codeGenResult.usage.promptTokens + codeGenResult.usage.completionTokens
            - codeGenResult.usage.totalTokens \in {0, 1}
  /\ result.present =>
       result.usage.promptTokens + result.usage.completionTokens
         - result.usage.totalTokens \in {0, 1, 2}

\* a finished run whose combined total is two less than the sum of its parts
C26_Witness ==
  /\ result.present
  /\ result.usage.promptTokens + result.usage.completionTokens
       = result.usage.totalTokens + 2

\* ---------------------------------------------------------------- replacement branch

\* C27: whenever the orchestrator's replacement step has run, the history holds a
\* user message, so the step replaced and did not append: the sequence handed to
\* the code generator is exactly as long as the input history, and the message
\* beyond its end that an append would add does not exist.
C27_AppendBranchUnreachable ==
  /\ \A c \in CallsOf("code_generator") :
       /\ HasUser(messages)
       /\ LastUserIndex(messages) \in 1..Len(messages)
       /\ Len(calls[c].messages) = Len(messages)
       /\ Len(calls[c].messages) <= Len(calls[1].messages)
  /\ pc = "enhancer_returned" => HasUser(messages)

\* the replacement step has run on a history whose newest message is not the user
\* message
C27_Witness ==
  /\ pc = "codegen_execute"
  /\ CallsOf("code_generator") # {}
  /\ Len(messages) = 2
  /\ messages[1].role = "user"
  /\ messages[2].role = "system"

\* ---------------------------------------------------------------- termination

\* the orchestration has returned a result or has rejected
Settled ==
  \/ pc = "done" /\ result.present /\ thrown = NoError
  \/ pc = "error" /\ ~result.present /\ thrown # NoError

\* C28: when every model call that is awaited settles, the orchestration
\* eventually returns an OrchestratorResult or rejects; from then on no stage is
\* started, no model is invoked and no event is written.
C28_OrchestrationSettles ==
  /\ <>Settled
  /\ [][(pc \in {"done", "error"}) =>
          (pc' = pc /\ calls' = calls /\ invocations' = invocations /\ sink' = sink
             /\ result' = result /\ thrown' = thrown)]_vars
  /\ [](pc \in {"done", "error"} => Settled)

\* the orchestration has rejected after the code generator's model call failed
C28_Witness ==
  /\ pc = "error"
  /\ enhancerResult.present
  /\ thrown = <<"network error">>
  /\ Len(invocations) = 2

\* ---------------------------------------------------------------- C29

\* the model calls both requests made settled the same way
SameModelResults ==
  \A i \in 1..Len(ModelResults) :
    i <= Len(firstRun.modelResults) => ModelResults[i] = firstRun.modelResults[i]

\* the second request carries another key value somewhere
KeysChanged == <<apiKeys, env, procEnv>> # <<firstRun.apiKeys, firstRun.env, firstRun.procEnv>>

\* C29: two LangChain requests that differ only in the values of their API keys,
\* and whose model calls settle the same way, write the same events to the sink
\* and end with the same result or the same error message
C29_KeyValuesDoNotShow ==
  (firstRun.done /\ pc \in {"done", "error"} /\ SameModelResults)
    => /\ sink = firstRun.sink
       /\ result = firstRun.result
       /\ thrown = firstRun.thrown

\* a second request with other key values has returned a result after both of
\* its model calls resolved as in the first
C29_Witness ==
  /\ firstRun.done
  /\ KeysChanged
  /\ pc = "done"
  /\ result.present
  /\ Len(ModelResults) = 2
  /\ SameModelResults

\* ---------------------------------------------------------------- C30

\* the k-th and the next viewAgentLogs call used the same filter and the page
\* wrote nothing to the console between them
ConsecutiveQuietViews(k) ==
  /\ k \in 1..(Len(browser.returned) - 1)
  /\ browser.returned[k].mode = browser.returned[k + 1].mode
  /\ browser.returned[k].activity = browser.returned[k + 1].activity

\* C30: with log capture enabled, two consecutive viewAgentLogs calls with the same
\* filter and no console activity of the page in between return the same list, as
\* no call adds an entry its filter selects
C30_ViewingLeavesViewUnchanged ==
  \A k \in 1..(Len(browser.returned) - 1) :
    ConsecutiveQuietViews(k)
      => browser.returned[k + 1].filteredLogs = browser.returned[k].filteredLogs

====
